---- MODULE Spec2Model ----
(***************************************************************************)
(* A model of the command-risk and execution-state engine of SAGE-CLI:     *)
(* the safety policy (safety.py), the command scoreboard and the goal loop *)
(* (agent_shell.py).  Command texts are sequences of one-character         *)
(* strings, so that trimming, case folding, substring tests, regular       *)
(* expression search and shell tokenisation are computed, not assumed.     *)
(* Optional[T] values are sequences of length at most one: None is <<>>,   *)
(* a present value x is <<x>>.                                             *)
(***************************************************************************)
EXTENDS Integers, Sequences, FiniteSets, TLC

VARIABLES
    sp_rules,      \* SafetyPolicy.rules of the policy under evaluation
    sp_cmd,        \* the command text handed to SafetyPolicy.evaluate
    sp_decision,   \* Optional[SafetyDecision]: the value evaluate returned
    nm_cmd,        \* the command text handed to CommandScoreboard._normalize
    nm_key,        \* Optional: _normalize(nm_cmd)
    nm_key2,       \* Optional: _normalize(_normalize(nm_cmd))
    nm_variant,    \* Optional: _normalize of nm_cmd with one separator blank doubled
    scores,        \* CommandScoreboard._scores: normalized key -> CommandStats
    sb_snapshot,   \* Optional: the CommandStats object the last analyze/record returned
    sb_tally,      \* bookkeeping: key -> outcomes recorded so far for that key
    sb_last,       \* the last scoreboard call made: [op, key]
    pc,                     \* where main() stands: idle, suggest, command_prompt,
                            \*   action_prompt, confirm_prompt, executing
    safety_disabled,        \* --safety-off / AGENT_DISABLE_SAFETY=1
    planner_name,           \* the planner create_planner built: "mock" or "openrouter"
    run_count,              \* bookkeeping: executed command text -> the number of
                            \*   execute_command calls made with it in the process
    goal_history,           \* List[CommandResult] of the current goal
    planner_error_msg,      \* Optional[str]
    user_cancelled,         \* bool
    planner_completed,      \* bool
    conversation_messages,  \* List[str]
    active_plan,            \* Optional[PlanState]
    command_suggestion,     \* the planner's command of this iteration
    current,                \* the default text of the "Command> " prompt
    edited,                 \* the text the operator entered at that prompt
    decision,               \* Optional[SafetyDecision] of the entered text
    active_step,            \* Optional: position of the step current_step() returned
    response,               \* Optional: the answer at the confirmation prompt
    status,                 \* Optional: the terminal status of the goal just ended
    planner_reply,          \* Optional: the reply the last iteration of the inner loop
                            \*   handled when it went on to ask again (a plan, a DONE
                            \*   that was turned down), None otherwise
    ps_start,      \* Optional: the PlanState as convert_planner_plan built it
    ps_plan,       \* the PlanState object under a sequence of method calls
    ps_log,        \* the mark_running / record_result calls made on it so far
    ps_before,     \* Optional: the PlanState as it was before the last of these calls
    ps_current,    \* Optional: the value the last current_step() call returned
    rf_candidate,  \* Optional[str]: the candidate handed to is_repeated_failure
    rf_history,    \* the PlannerTurn list handed to is_repeated_failure
    rf_result,     \* Optional: the value is_repeated_failure returned
    tn_history,    \* the PlannerTurn list handed to OpenRouterPlanner.suggest
    tn_attempt,    \* the attempt of "for attempt in range(2)" that runs next
    tn_messages,   \* the messages the next _chat call sends
    tn_log,        \* the _chat calls made so far: [messages, answer]
    tn_outcome,    \* Optional: what suggest() handed to main(), returned or raised
    tn_status,     \* Optional: the terminal status main() gave the goal after it
    ds_args,       \* the arguments of a determine_status call, and whether
                   \*   planner_completed was set by a chat reply
    ds_result,     \* Optional: the value determine_status returned
    ld_candidates, \* the files behind the candidate paths of SafetyPolicy.load
    ld_yaml,       \* whether "import yaml" succeeded
    ld_index,      \* the candidate the loop of SafetyPolicy.load is at
    ld_outcome,    \* Optional: what SafetyPolicy.load returned or raised
    ld_main,       \* main(): loading, running with a policy, or crashed
    st_main,       \* where the main thread stands in execute_command
    st_proc,       \* the subprocess: what it still writes, what it wrote, its state
    st_pipe,       \* the bytes written to each pipe and not yet read
    st_thread,     \* the two reader threads: state, decoded text, buffer
    st_result,     \* Optional: what stream_process_output returned
    st_runs        \* the results main() has recorded

safetyVars == <<sp_rules, sp_cmd, sp_decision>>
normVars == <<nm_cmd, nm_key, nm_key2, nm_variant>>
boardVars == <<scores, sb_snapshot, sb_tally, sb_last>>

planVars == <<ps_start, ps_plan, ps_log, ps_before, ps_current>>
guardVars == <<rf_candidate, rf_history, rf_result>>

turnVars == <<tn_history, tn_attempt, tn_messages, tn_log, tn_outcome, tn_status>>
statusVars == <<ds_args, ds_result>>
loadVars == <<ld_candidates, ld_yaml, ld_index, ld_outcome, ld_main>>
streamVars == <<st_main, st_proc, st_pipe, st_thread, st_result, st_runs>>

harnessVars == <<sb_snapshot, sb_tally, sb_last>>
mainVars == <<pc, safety_disabled, planner_name, run_count, goal_history, planner_error_msg,
              user_cancelled,
              planner_completed, conversation_messages, active_plan, command_suggestion,
              current, edited, decision, active_step, response, status>>
loopVars == <<mainVars, turnVars, statusVars, loadVars, streamVars>>

vars == <<sp_rules, sp_cmd, sp_decision, nm_cmd, nm_key, nm_key2, nm_variant,
          scores, sb_snapshot, sb_tally, sb_last,
          pc, safety_disabled, planner_name, run_count, goal_history, planner_error_msg,
          user_cancelled, planner_completed, conversation_messages, active_plan, command_suggestion,
          current, edited, decision, active_step, response, status, planner_reply,
          ps_start, ps_plan, ps_log, ps_before, ps_current, rf_candidate, rf_history, rf_result,
          tn_history, tn_attempt, tn_messages, tn_log, tn_outcome, tn_status,
          ds_args, ds_result, ld_candidates, ld_yaml, ld_index, ld_outcome, ld_main,
          st_main, st_proc, st_pipe, st_thread, st_result, st_runs>>

(***************************************************************************)
(* Bounds of the model.                                                    *)
(***************************************************************************)
MaxWs == 2          \* longest run of blanks put between two tokens
MaxRules == 3       \* longest rule list of a custom policy
MaxLen == 5         \* longest command text handed to _normalize
MaxRecords == 3     \* most outcomes recorded on the scoreboard in one run
MaxExecutions == 2  \* most commands executed by the goal loop in one run
MaxCalls == 3       \* most mark_running / record_result calls made on one PlanState
MaxTurns == 3       \* longest history handed to is_repeated_failure
MaxWrites == 2      \* most writes one subprocess makes to its two pipes
MaxRuns == 2        \* most commands executed one after the other

None == <<>>
Some(x) == <<x>>

(***************************************************************************)
(* Characters and text helpers (Python str semantics on the ASCII range).  *)
(***************************************************************************)
Chars ==
    [ lower |-> <<"a", "b", "c", "d", "e", "f", "g", "h", "i", "j", "k", "l", "m",
                   "n", "o", "p", "q", "r", "s", "t", "u", "v", "w", "x", "y", "z">>,
      upper |-> <<"A", "B", "C", "D", "E", "F", "G", "H", "I", "J", "K", "L", "M",
                   "N", "O", "P", "Q", "R", "S", "T", "U", "V", "W", "X", "Y", "Z">>,
      digit |-> {"0", "1", "2", "3", "4", "5", "6", "7", "8", "9"} ]

Range(s) == {s[i] : i \in 1..Len(s)}

\* str.lower() on one character
LowerOf(ch) ==
    IF \E i \in 1..26 : Chars.upper[i] = ch
    THEN Chars.lower[CHOOSE i \in 1..26 : Chars.upper[i] = ch]
    ELSE ch

\* str.lower()
Lower(s) == [i \in 1..Len(s) |-> LowerOf(s[i])]

\* the characters str.strip() removes and \s matches
IsSpace(ch) == ch \in {" ", "\t", "\n", "\r"}

\* the characters \w matches
IsWord(ch) == ch \in Range(Chars.lower) \cup Range(Chars.upper) \cup Chars.digit \cup {"_"}

RECURSIVE LStrip(_)
LStrip(s) == IF s = <<>> \/ ~IsSpace(s[1]) THEN s ELSE LStrip(Tail(s))

RECURSIVE RStrip(_)
RStrip(s) ==
    IF s = <<>> \/ ~IsSpace(s[Len(s)]) THEN s ELSE RStrip(SubSeq(s, 1, Len(s) - 1))

\* str.strip()
Strip(s) == RStrip(LStrip(s))

\* sub in s
Contains(s, sub) ==
    \E p \in 1..(Len(s) - Len(sub) + 1) : SubSeq(s, p, p + Len(sub) - 1) = sub

\* the characters of a text as one string value
RECURSIVE Str(_)
Str(s) == IF s = <<>> THEN "" ELSE s[1] \o Str(Tail(s))

\* sep.join(items), items a sequence of strings
RECURSIVE JoinStr(_, _)
JoinStr(items, sep) ==
    IF items = <<>> THEN ""
    ELSE IF Len(items) = 1 THEN items[1]
    ELSE items[1] \o sep \o JoinStr(Tail(items), sep)

(***************************************************************************)
(* Regular expressions.  A pattern is a sequence of items:                 *)
(*   <<"lit", c>>   the character c          <<"ws1">>  \s+                *)
(*   <<"ws0">>      \s*                      <<"w0">>   \w*                *)
(*   <<"b">>        \b                       <<"cls", S>>  one char of S   *)
(*   <<"alt", W>>   one of the literals W    <<"opt", w>>  (w)?            *)
(* Search is re.search: a match may start at any position.                 *)
(***************************************************************************)
Lit(w) == [i \in 1..Len(w) |-> <<"lit", w[i]>>]

CharEqCaseSensitive(a, b) == a = b

\* two characters are equal under re.IGNORECASE
CharEq(a, b) == LowerOf(a) = LowerOf(b)

\* the literal w occurs in s at position p
LitAt(w, s, p) ==
    /\ p + Len(w) - 1 <= Len(s)
    /\ \A i \in 1..Len(w) : CharEq(s[p + i - 1], w[i])

\* \b at position p (between s[p-1] and s[p])
Boundary(s, p) ==
    (p > 1 /\ IsWord(s[p - 1])) # (p <= Len(s) /\ IsWord(s[p]))

RECURSIVE MatchAt(_, _, _, _)
MatchAt(pat, i, s, p) ==
    IF i > Len(pat) THEN TRUE
    ELSE LET it == pat[i]
             k == it[1]
         IN  CASE k = "lit" ->
                    /\ p <= Len(s)
                    /\ CharEq(s[p], it[2])
                    /\ MatchAt(pat, i + 1, s, p + 1)
               [] k = "cls" ->
                    /\ p <= Len(s)
                    /\ \E c \in it[2] : CharEq(s[p], c)
                    /\ MatchAt(pat, i + 1, s, p + 1)
               [] k = "ws1" ->
                    \E n \in 1..(Len(s) - p + 1) :
                        /\ \A q \in p..(p + n - 1) : IsSpace(s[q])
                        /\ MatchAt(pat, i + 1, s, p + n)
               [] k = "ws0" ->
                    \E n \in 0..(Len(s) - p + 1) :
                        /\ \A q \in p..(p + n - 1) : IsSpace(s[q])
                        /\ MatchAt(pat, i + 1, s, p + n)
               [] k = "w0" ->
                    \E n \in 0..(Len(s) - p + 1) :
                        /\ \A q \in p..(p + n - 1) : IsWord(s[q])
                        /\ MatchAt(pat, i + 1, s, p + n)
               [] k = "b" ->
                    /\ Boundary(s, p)
                    /\ MatchAt(pat, i + 1, s, p)
               [] k = "alt" ->
                    \E w \in it[2] :
                        /\ LitAt(w, s, p)
                        /\ MatchAt(pat, i + 1, s, p + Len(w))
               [] k = "opt" ->
                    \/ MatchAt(pat, i + 1, s, p)
                    \/ /\ LitAt(it[2], s, p)
                       /\ MatchAt(pat, i + 1, s, p + Len(it[2]))

\* re.compile(pattern, re.IGNORECASE).search(s) is not None
Search(pat, s) == \E p \in 1..(Len(s) + 1) : MatchAt(pat, 1, s, p)

(***************************************************************************)
(* Words of the built-in patterns and of the commands tried.               *)
(***************************************************************************)
Words ==
    [ rm |-> <<"r", "m">>,
      rf |-> <<"-", "r", "f">>,
      slash |-> <<"/">>,
      aptget |-> <<"a", "p", "t", "-", "g", "e", "t">>,
      apt |-> <<"a", "p", "t">>,
      install |-> <<"i", "n", "s", "t", "a", "l", "l">>,
      ls |-> <<"l", "s">>,
      sudo |-> <<"s", "u", "d", "o">>,
      y |-> <<"-", "y">>,
      yes |-> <<"-", "-", "y", "e", "s">>,
      nginx |-> <<"n", "g", "i", "n", "x">>,
      proceed |-> <<"p", "r", "o", "c", "e", "e", "d">>,
      PROCEED |-> <<"P", "R", "O", "C", "E", "E", "D">> ]

(***************************************************************************)
(* safety.py: SafetyRule, SafetyDecision, SafetyPolicy.                    *)
(***************************************************************************)
SafetyDecision(level, require_confirmation, notes) ==
    [level |-> level, require_confirmation |-> require_confirmation, notes |-> notes]

SafetyRule(pattern, level, require_confirmation, allowed_flags, description) ==
    [pattern |-> pattern, level |-> level,
     require_confirmation |-> require_confirmation,
     allowed_flags |-> allowed_flags, description |-> description]

\* SafetyRule.matches
SafetyRule_matches(rule, command) == Search(rule.pattern, command)

\* "if self.allowed_flags:" -- a present, non-empty list
FlagsDeclared(rule) == rule.allowed_flags # None /\ rule.allowed_flags[1] # <<>>

\* "if self.description:" -- a present, non-empty string
DescriptionGiven(rule) == rule.description # None /\ rule.description[1] # ""

NotAllAllowedFlags(rule, command) ==
    \E i \in 1..Len(rule.allowed_flags[1]) : ~Contains(command, rule.allowed_flags[1][i])

\* not any(flag in command for flag in self.allowed_flags)
NoAllowedFlag(rule, command) ==
    ~\E i \in 1..Len(rule.allowed_flags[1]) : Contains(command, rule.allowed_flags[1][i])

FlagAdvisory(rule) ==
    "Expected one of the following flags: "
        \o JoinStr([i \in 1..Len(rule.allowed_flags[1]) |-> Str(rule.allowed_flags[1][i])], ", ")

\* SafetyRule.evaluate
SafetyRule_evaluate(rule, command) ==
    LET missing == FlagsDeclared(rule) /\ NoAllowedFlag(rule, command)
        notes == (IF missing THEN <<FlagAdvisory(rule)>> ELSE <<>>)
                 \o (IF DescriptionGiven(rule) THEN <<rule.description[1]>> ELSE <<>>)
    IN  SafetyDecision(rule.level,
                       rule.require_confirmation \/ missing,
                       IF notes # <<>> THEN Some(JoinStr(notes, "\n")) ELSE None)

AptDescription == "Apt installs should include -y for non-interactive mode."

\* the patterns of the high rules of SafetyPolicy.default, in declaration order
HighPatterns ==
    <<\* rm\s+-rf\s+/
      Lit(Words.rm) \o <<<<"ws1">>>> \o Lit(Words.rf) \o <<<<"ws1">>>> \o Lit(Words.slash),
      \* :\(\)\s*{
      Lit(<<":", "(", ")">>) \o <<<<"ws0">>>> \o Lit(<<"{">>),
      \* \bdd\s+if=
      <<<<"b">>>> \o Lit(<<"d", "d">>) \o <<<<"ws1">>>> \o Lit(<<"i", "f", "=">>),
      \* \bmkfs\.\w*
      <<<<"b">>>> \o Lit(<<"m", "k", "f", "s", ".">>) \o <<<<"w0">>>>,
      \* >\s*/dev/sd[0-9a-z]
      Lit(<<">">>) \o <<<<"ws0">>>> \o Lit(<<"/", "d", "e", "v", "/", "s", "d">>)
          \o <<<<"cls", Chars.digit \cup Range(Chars.lower)>>>>,
      \* \bwipefs\b
      <<<<"b">>>> \o Lit(<<"w", "i", "p", "e", "f", "s">>) \o <<<<"b">>>>,
      \* \b(poweroff|shutdown|reboot|halt)\b
      <<<<"b">>,
        <<"alt", {<<"p", "o", "w", "e", "r", "o", "f", "f">>,
                  <<"s", "h", "u", "t", "d", "o", "w", "n">>,
                  <<"r", "e", "b", "o", "o", "t">>, <<"h", "a", "l", "t">>}>>,
        <<"b">>>>,
      \* \buserdel\b
      <<<<"b">>>> \o Lit(<<"u", "s", "e", "r", "d", "e", "l">>) \o <<<<"b">>>>,
      \* \bmkpart\b
      <<<<"b">>>> \o Lit(<<"m", "k", "p", "a", "r", "t">>) \o <<<<"b">>>> >>

\* \bsudo\b and \bapt(-get)?\s+install\b of the built-in policy; \s+ and
\* \s*, which matches every text, for the rules of custom policies
Patterns ==
    [ sudo |-> <<<<"b">>>> \o Lit(Words.sudo) \o <<<<"b">>>>,
      aptinstall |->
        <<<<"b">>>> \o Lit(Words.apt) \o <<<<"opt", <<"-", "g", "e", "t">>>>, <<"ws1">>>>
            \o Lit(Words.install) \o <<<<"b">>>>,
      blank |-> <<<<"ws1">>>>,
      any |-> <<<<"ws0">>>> ]

\* the patterns of the medium rules declared before the install rule
MediumPatterns ==
    <<Patterns.sudo,
      \* \bapt(-get)?\s+remove\b
      <<<<"b">>>> \o Lit(Words.apt) \o <<<<"opt", <<"-", "g", "e", "t">>>>, <<"ws1">>>>
          \o Lit(<<"r", "e", "m", "o", "v", "e">>) \o <<<<"b">>>>,
      \* \bchown\s+-R\b
      <<<<"b">>>> \o Lit(<<"c", "h", "o", "w", "n">>) \o <<<<"ws1">>>>
          \o Lit(<<"-", "R">>) \o <<<<"b">>>>,
      \* \bchmod\s+777\b
      <<<<"b">>>> \o Lit(<<"c", "h", "m", "o", "d">>) \o <<<<"ws1">>>>
          \o Lit(<<"7", "7", "7">>) \o <<<<"b">>>>,
      \* \bsystemctl\s+(stop|restart)\s+
      <<<<"b">>>> \o Lit(<<"s", "y", "s", "t", "e", "m", "c", "t", "l">>)
          \o <<<<"ws1">>,
               <<"alt", {<<"s", "t", "o", "p">>, <<"r", "e", "s", "t", "a", "r", "t">>}>>,
               <<"ws1">>>>,
      \* \bkill\s+-9\b
      <<<<"b">>>> \o Lit(<<"k", "i", "l", "l">>) \o <<<<"ws1">>>>
          \o Lit(<<"-", "9">>) \o <<<<"b">>>> >>

HighRule(pattern) == SafetyRule(pattern, "high", TRUE, None, None)
MediumRule(pattern) == SafetyRule(pattern, "medium", FALSE, None, None)
AptInstallRule == SafetyRule(Patterns.aptinstall, "medium", FALSE, Some(<<Words.y>>), Some(AptDescription))

DefaultRulesInstallFirst ==
    [i \in 1..Len(HighPatterns) |-> HighRule(HighPatterns[i])]
        \o <<AptInstallRule>>
        \o [i \in 1..Len(MediumPatterns) |-> MediumRule(MediumPatterns[i])]

\* SafetyPolicy.default
\* the built-in rules with the medium rules declared before the high ones
SafetyPolicy_defaultMediumFirst ==
    [i \in 1..Len(MediumPatterns) |-> MediumRule(MediumPatterns[i])]
        \o <<AptInstallRule>>
        \o [i \in 1..Len(HighPatterns) |-> HighRule(HighPatterns[i])]

SafetyPolicy_default ==
    [i \in 1..Len(HighPatterns) |-> HighRule(HighPatterns[i])]
        \o [i \in 1..Len(MediumPatterns) |-> MediumRule(MediumPatterns[i])]
        \o <<AptInstallRule>>

LowDecision == SafetyDecision("low", FALSE, None)

RECURSIVE ScanRulesLastMatch(_, _, _)
ScanRulesLastMatch(rules, i, normalized) ==
    IF i > Len(rules) THEN LowDecision
    ELSE LET rest == ScanRulesLastMatch(rules, i + 1, normalized)
         IN  IF rest # LowDecision \/ ~SafetyRule_matches(rules[i], normalized)
             THEN rest
             ELSE SafetyRule_evaluate(rules[i], normalized)

\* the loop "for rule in self.rules" of SafetyPolicy.evaluate, from rule i on
RECURSIVE ScanRules(_, _, _)
ScanRules(rules, i, normalized) ==
    IF i > Len(rules) THEN LowDecision
    ELSE IF SafetyRule_matches(rules[i], normalized)
         THEN SafetyRule_evaluate(rules[i], normalized)
         ELSE ScanRules(rules, i + 1, normalized)

SafetyPolicy_evaluateUntrimmed(rules, command) == ScanRules(rules, 1, command)

\* SafetyPolicy.evaluate
SafetyPolicy_evaluate(rules, command) ==
    LET normalized == Strip(command)
    IN  IF normalized = <<>> THEN LowDecision ELSE ScanRules(rules, 1, normalized)

(***************************************************************************)
(* Commands evaluated under the built-in policy: an optional prefix, a     *)
(* core and an optional tail of tokens, joined by runs of blanks.          *)
(***************************************************************************)
RECURSIVE Spaces(_)
Spaces(n) == IF n = 0 THEN <<>> ELSE <<" ">> \o Spaces(n - 1)

WsRuns == {Spaces(n) : n \in 1..MaxWs} \cup {<<"\t">>}

\* the tokens joined, gap g1 after the odd tokens and g2 after the even ones
RECURSIVE JoinTokens(_, _, _)
JoinTokens(tokens, g1, g2) ==
    IF tokens = <<>> THEN <<>>
    ELSE IF Len(tokens) = 1 THEN tokens[1]
    ELSE tokens[1] \o g1 \o JoinTokens(Tail(tokens), g2, g1)

Tokens ==
    [ prefix |-> {<<>>, <<Words.sudo>>},
      core |->
        {<<Words.rm, Words.rf, Words.slash>>,
         <<<<"R", "M">>, <<"-", "R", "f">>, <<"/", "t", "m", "p">>>>,
         <<<<"f", "a", "r", "m">>, Words.rf, Words.slash>>,
         <<Words.rm, <<"-", "r">>, Words.slash>>,
         <<Words.rm, Words.rf, <<"t", "m", "p">>>>,
         <<Words.rm \o Words.rf, Words.slash>>,
         <<Words.aptget, Words.install>>,
         <<Words.apt, Words.install>>,
         <<<<"A", "P", "T", "-", "G", "E", "T">>, Words.install>>,
         <<Words.aptget, <<"i", "n", "s", "t", "a", "l", "l", "e", "r">>>>,
         <<Words.aptget, <<"r", "e", "m", "o", "v", "e">>>>,
         <<Words.aptget, <<"u", "p", "d", "a", "t", "e">>>>,
         <<Words.ls>>},
      tail |->
        {<<>>, <<Words.y>>, <<Words.nginx>>, <<Words.y, Words.nginx>>, <<Words.yes>>,
         <<<<"p", "y", "t", "h", "o", "n", "-", "y", "a", "m", "l">>>>,
         <<Words.nginx, <<"r", "e", "b", "o", "o", "t">>>>} ]

DefaultCommands ==
    {pad \o JoinTokens(pre \o core \o tail, g1, g2) \o pad :
        pre \in Tokens.prefix, core \in Tokens.core, tail \in Tokens.tail,
        g1 \in WsRuns, g2 \in WsRuns, pad \in {<<>>, <<" ">>}}

(***************************************************************************)
(* SpecDefault: SafetyPolicy.default().evaluate(command).                  *)
(***************************************************************************)
SafetyIdle == sp_rules = <<>> /\ sp_cmd = <<>> /\ sp_decision = None
NormIdle == nm_cmd = <<>> /\ nm_key = None /\ nm_key2 = None /\ nm_variant = None
BoardIdle ==
    /\ scores = <<>> /\ sb_snapshot = None /\ sb_tally = <<>>
    /\ sb_last = [op |-> "none", key |-> <<>>]

MainIdle ==
    /\ pc = "off" /\ safety_disabled = FALSE /\ planner_name = "openrouter"
    /\ run_count = <<>>
    /\ goal_history = <<>> /\ planner_error_msg = None
    /\ user_cancelled = FALSE /\ planner_completed = FALSE
    /\ conversation_messages = <<>> /\ active_plan = None
    /\ command_suggestion = <<>> /\ current = <<>> /\ edited = <<>>
    /\ decision = None /\ active_step = None /\ response = None /\ status = None
    /\ planner_reply = None

TurnIdle ==
    /\ tn_history = <<>> /\ tn_attempt = 0 /\ tn_messages = <<>> /\ tn_log = <<>>
    /\ tn_outcome = None /\ tn_status = None
StatusIdle == ds_args = <<>> /\ ds_result = None
LoadIdle ==
    /\ ld_candidates = <<>> /\ ld_yaml = FALSE /\ ld_index = 0 /\ ld_outcome = None
    /\ ld_main = [state |-> "off", policy |-> None]
StreamIdle ==
    /\ st_main = "idle" /\ st_result = None /\ st_runs = 0
    /\ st_proc = [state |-> "none", todo |-> <<>>, returncode |-> 0,
                  emitted |-> [out |-> <<>>, err |-> <<>>]]
    /\ st_pipe = [out |-> <<>>, err |-> <<>>]
    /\ st_thread = [s \in {"out", "err"} |->
                        [state |-> "none", pending |-> <<>>, buffer |-> <<>>]]
LoopIdle == MainIdle /\ TurnIdle /\ StatusIdle /\ LoadIdle /\ StreamIdle

PlanIdle == ps_start = None /\ ps_plan = None /\ ps_log = <<>> /\ ps_before = None /\ ps_current = None
GuardIdle == rf_candidate = None /\ rf_history = <<>> /\ rf_result = None

InitDefault ==
    /\ NormIdle /\ BoardIdle /\ LoopIdle /\ PlanIdle /\ GuardIdle
    /\ sp_rules = SafetyPolicy_default
    /\ sp_cmd \in DefaultCommands
    /\ sp_decision = None

\* decision = policy.evaluate(command)
Evaluate ==
    /\ sp_decision = None
    /\ sp_decision' = Some(SafetyPolicy_evaluate(sp_rules, sp_cmd))
    /\ UNCHANGED <<sp_rules, sp_cmd>>
    /\ UNCHANGED <<normVars, boardVars, loopVars, planner_reply, planVars, guardVars>>

SpecDefault == InitDefault /\ [][Evaluate]_vars

(***************************************************************************)
(* SpecPolicy: SafetyPolicy(rules).evaluate(command) for custom rule lists.*)
(***************************************************************************)
RulePool ==
    {MediumRule(Patterns.sudo),
     AptInstallRule,
     SafetyRule(Patterns.sudo, "high", TRUE, Some(<<Words.y, Words.yes>>), None),
     SafetyRule(Patterns.aptinstall, "low", TRUE, Some(<<>>), Some("")),
     SafetyRule(Patterns.blank, "high", FALSE, Some(<<Words.rf>>), Some("Blank run.")),
     SafetyRule(Patterns.any, "medium", FALSE, None, None)}

RuleLists == UNION {[1..n -> RulePool] : n \in 0..MaxRules}

PolicyCommands ==
    {<<>>, <<" ">>, <<" ", "\t">>,
     Words.ls,
     <<" ">> \o Words.sudo \o <<" ">> \o Words.ls \o <<" ">>,
     JoinTokens(<<Words.rm, Words.rf, Words.slash>>, <<" ">>, <<" ">>),
     JoinTokens(<<Words.aptget, Words.install, Words.nginx>>, <<" ">>, <<" ">>),
     JoinTokens(<<Words.apt, Words.install, Words.yes, Words.nginx>>, <<" ">>, <<" ">>),
     JoinTokens(<<Words.sudo, Words.aptget, Words.install, Words.nginx>>, <<" ">>, <<"\t">>),
     JoinTokens(<<Words.sudo, Words.aptget, Words.install, Words.y, Words.nginx>>, <<" ">>, <<" ">>)}

InitPolicy ==
    /\ NormIdle /\ BoardIdle /\ LoopIdle /\ PlanIdle /\ GuardIdle
    /\ sp_rules \in RuleLists
    /\ sp_cmd \in PolicyCommands
    /\ sp_decision = None

SpecPolicy == InitPolicy /\ [][Evaluate]_vars

(***************************************************************************)
(* shlex.split (posix mode, whitespace_split, no comments), the tokeniser  *)
(* CommandScoreboard._normalize calls.  The lexer state st is " " (between *)
(* tokens), "a" (in a word), a quote character (inside quotes) or "\\"     *)
(* (after an escape); esc is the state an escape returns to.  The result   *)
(* is [ok, parts, seps]: ok is FALSE where shlex raises ValueError, parts  *)
(* are the tokens, seps the positions of the blanks read between tokens.   *)
(***************************************************************************)
QuoteChars == {"\"", "'"}
EscapeChar == "\\"
EscapedQuotes == {"\""}

RECURSIVE Lex(_, _, _, _, _, _, _, _)
Lex(s, p, st, tok, quoted, esc, parts, seps) ==
    LET eof == p > Len(s)
        ch == IF eof THEN "" ELSE s[p]
        emit == IF tok # <<>> \/ quoted THEN Append(parts, tok) ELSE parts
    IN  CASE st = " " ->
                IF eof THEN [ok |-> TRUE, parts |-> parts, seps |-> seps]
                ELSE IF IsSpace(ch)
                     THEN Lex(s, p + 1, " ", <<>>, FALSE, " ", emit, seps \cup {p})
                ELSE IF ch = EscapeChar
                     THEN Lex(s, p + 1, EscapeChar, tok, quoted, "a", parts, seps)
                ELSE IF ch \in QuoteChars
                     THEN Lex(s, p + 1, ch, tok, quoted, esc, parts, seps)
                ELSE Lex(s, p + 1, "a", <<ch>>, quoted, esc, parts, seps)
          [] st \in QuoteChars ->
                IF eof THEN [ok |-> FALSE, parts |-> <<>>, seps |-> {}]
                ELSE IF ch = st
                     THEN Lex(s, p + 1, "a", tok, TRUE, esc, parts, seps)
                ELSE IF ch = EscapeChar /\ st \in EscapedQuotes
                     THEN Lex(s, p + 1, EscapeChar, tok, TRUE, st, parts, seps)
                ELSE Lex(s, p + 1, st, Append(tok, ch), TRUE, esc, parts, seps)
          [] st = EscapeChar ->
                IF eof THEN [ok |-> FALSE, parts |-> <<>>, seps |-> {}]
                ELSE LET kept == IF esc \in QuoteChars /\ ch # EscapeChar /\ ch # esc
                                 THEN Append(tok, EscapeChar) ELSE tok
                     IN  Lex(s, p + 1, esc, Append(kept, ch), quoted, esc, parts, seps)
          [] OTHER ->
                IF eof THEN [ok |-> TRUE, parts |-> emit, seps |-> seps]
                ELSE IF IsSpace(ch)
                     THEN Lex(s, p + 1, " ", <<>>, FALSE, " ", emit, seps \cup {p})
                ELSE IF ch \in QuoteChars
                     THEN Lex(s, p + 1, ch, tok, quoted, esc, parts, seps)
                ELSE IF ch = EscapeChar
                     THEN Lex(s, p + 1, EscapeChar, tok, quoted, "a", parts, seps)
                ELSE Lex(s, p + 1, "a", Append(tok, ch), quoted, esc, parts, seps)

\* shlex.split(s)
shlex_split(s) == Lex(s, 1, " ", <<>>, FALSE, " ", <<>>, {})

\* str.split() of a trimmed text: the maximal runs of non-blank characters
RECURSIVE SplitBlank(_, _, _)
SplitBlank(s, tok, parts) ==
    IF s = <<>> THEN (IF tok # <<>> THEN Append(parts, tok) ELSE parts)
    ELSE IF IsSpace(s[1])
         THEN SplitBlank(Tail(s), <<>>, IF tok # <<>> THEN Append(parts, tok) ELSE parts)
         ELSE SplitBlank(Tail(s), Append(tok, s[1]), parts)

\* sep.join(parts), parts a sequence of texts
RECURSIVE JoinSeq(_, _)
JoinSeq(parts, sep) ==
    IF parts = <<>> THEN <<>>
    ELSE IF Len(parts) = 1 THEN parts[1]
    ELSE parts[1] \o sep \o JoinSeq(Tail(parts), sep)

\* CommandScoreboard._normalize
Normalize(command) ==
    LET lexed == shlex_split(command)
        parts == IF lexed.ok THEN lexed.parts ELSE SplitBlank(Strip(command), <<>>, <<>>)
        normalized == Strip(JoinSeq(parts, <<" ">>))
    IN  IF normalized # <<>> THEN normalized ELSE Strip(command)

(***************************************************************************)
(* SpecNormalize: _normalize applied to every text of at most MaxLen       *)
(* characters over blanks, a letter, both quotes and the backslash.        *)
(***************************************************************************)
NormChars == {"a", " ", "\"", "'", "\\"}

NormCommands == UNION {[1..n -> NormChars] : n \in 0..MaxLen}

\* the positions of the blanks that separate tokens of the command
SeparatorPositions(command) ==
    IF shlex_split(command).ok THEN shlex_split(command).seps
    ELSE {p \in 1..Len(command) : IsSpace(command[p])}

\* the command with the blank at position p doubled
Widen(command, p) == SubSeq(command, 1, p) \o SubSeq(command, p, Len(command))

InitNormalize ==
    /\ SafetyIdle /\ BoardIdle /\ LoopIdle /\ PlanIdle /\ GuardIdle
    /\ nm_cmd \in NormCommands
    /\ nm_key = None /\ nm_key2 = None /\ nm_variant = None

\* key = _normalize(command)
NormalizeOnce ==
    /\ nm_key = None
    /\ nm_key' = Some(Normalize(nm_cmd))
    /\ UNCHANGED <<nm_cmd, nm_key2, nm_variant>>
    /\ UNCHANGED <<safetyVars, boardVars, loopVars, planner_reply, planVars, guardVars>>

\* _normalize(key)
NormalizeAgain ==
    /\ nm_key # None /\ nm_key2 = None
    /\ nm_key2' = Some(Normalize(nm_key[1]))
    /\ UNCHANGED <<nm_cmd, nm_key, nm_variant>>
    /\ UNCHANGED <<safetyVars, boardVars, loopVars, planner_reply, planVars, guardVars>>

\* _normalize of the same command with more blanks between two tokens
NormalizeVariant ==
    /\ nm_key # None /\ nm_variant = None
    /\ \E p \in SeparatorPositions(nm_cmd) :
           nm_variant' = Some(Normalize(Widen(nm_cmd, p)))
    /\ UNCHANGED <<nm_cmd, nm_key, nm_key2>>
    /\ UNCHANGED <<safetyVars, boardVars, loopVars, planner_reply, planVars, guardVars>>

SpecNormalize == InitNormalize /\ [][NormalizeOnce \/ NormalizeAgain \/ NormalizeVariant]_vars

(***************************************************************************)
(* planner.py: what a planner hands to main(), and the command texts of    *)
(* the goal loop.                                                          *)
(***************************************************************************)
PlannerSuggestion(mode, command, message, plan) ==
    [mode |-> mode, command |-> command, message |-> message, plan |-> plan]

\* what suggest() hands to main(): a suggestion, or a raised PlannerError
Returned(suggestion) == [raised |-> FALSE, reply |-> Some(suggestion)]
Raised == [raised |-> TRUE, reply |-> None]

\* MockCommandPlanner.suggest: f"echo Mock planner received goal: {goal}"
MockCommandPlanner_suggest(goal) ==
    Returned(PlannerSuggestion("command",
        Some(<<"e", "c", "h", "o", " ", "M", "o", "c", "k", " ",
               "p", "l", "a", "n", "n", "e", "r", " ",
               "r", "e", "c", "e", "i", "v", "e", "d", " ",
               "g", "o", "a", "l", ":", " ">> \o goal),
        None, None))

\* the command texts of the goal loop: what the planner suggests, what the
\* operator types instead, and the planner's word for completion
CommandTexts ==
    [ mock |-> MockCommandPlanner_suggest(<<"g">>).reply[1].command[1],
      ls |-> Words.ls,
      apt |-> JoinTokens(<<Words.apt, Words.install>>, <<" ">>, <<" ">>),
      rm |-> JoinTokens(<<Words.rm, Words.rf, Words.slash>>, <<" ">>, <<" ">>),
      DONE |-> <<"D", "O", "N", "E">>,
      done |-> <<"d", "o", "n", "e">> ]

\* CommandScoreboard._normalize of the texts of the goal loop, computed once
NormalizedKeys ==
    [text \in {CommandTexts.mock, CommandTexts.ls, CommandTexts.apt, CommandTexts.rm} |->
        Normalize(text)]

\* CommandScoreboard._normalize, looked up for the texts of the goal loop
normalize_key(command) ==
    IF command \in DOMAIN NormalizedKeys THEN NormalizedKeys[command] ELSE Normalize(command)

(***************************************************************************)
(* agent_shell.py: CommandStats and CommandScoreboard.  A CommandStats     *)
(* object handed to a caller is a reference: [ref, stats], where ref is    *)
(* None for an object of its own and Some(key) for the very object stored  *)
(* under key, so that a caller's mutation of what it was handed is seen to *)
(* reach the scoreboard or not.                                            *)
(***************************************************************************)
CommandStats(successes, failures) == [successes |-> successes, failures |-> failures]

CommandStats_recordSwapped(stats, success) ==
    IF success THEN [stats EXCEPT !.failures = @ + 1]
    ELSE [stats EXCEPT !.successes = @ + 1]

\* CommandStats.record
CommandStats_record(stats, success) ==
    IF success THEN [stats EXCEPT !.successes = @ + 1]
    ELSE [stats EXCEPT !.failures = @ + 1]

\* CommandStats.score
CommandStats_score(stats) == stats.successes - stats.failures

\* CommandStats.total
CommandStats_total(stats) == stats.successes + stats.failures

\* CommandStats.to_dict
CommandStats_to_dict(stats) ==
    [successes |-> stats.successes, failures |-> stats.failures,
     score |-> CommandStats_score(stats)]

\* a new CommandStats object with the same counts
CopyOf(stats) == [ref |-> None, stats |-> CommandStats(stats.successes, stats.failures)]

CommandScoreboard_analyzeAliased(board, command) ==
    LET key == normalize_key(command)
    IN  [scores |-> board, key |-> key,
         stats |-> IF key \in DOMAIN board
                   THEN Some([ref |-> Some(key), stats |-> board[key]])
                   ELSE None]

\* CommandScoreboard.analyze: [scores, key, stats], scores the board afterwards
CommandScoreboard_analyze(board, command) ==
    LET key == normalize_key(command)
    IN  [scores |-> board, key |-> key,
         stats |-> IF key \in DOMAIN board THEN Some(CopyOf(board[key])) ELSE None]

\* CommandScoreboard.record: [scores, key, stats], scores the board afterwards
CommandScoreboard_record(board, command, success) ==
    LET key == normalize_key(command)
        stored == IF key \in DOMAIN board THEN board[key] ELSE CommandStats(0, 0)
        updated == CommandStats_record(stored, success)
    IN  [scores |-> (key :> updated) @@ board, key |-> key, stats |-> Some(CopyOf(updated))]

(***************************************************************************)
(* SpecScoreboard: any interleaving of record and analyze calls, and of    *)
(* callers mutating the CommandStats object they were handed.              *)
(***************************************************************************)
BoardCommands ==
    {<<"a">>, <<"a", " ", "a">>, <<"a", " ", " ", "a">>, <<" ", "a", "\t", "a">>,
     <<"\"", "a">>}

Recorded == IF sb_tally = <<>> THEN 0
            ELSE LET RECURSIVE Sum(_)
                     Sum(K) == IF K = {} THEN 0
                               ELSE LET k == CHOOSE x \in K : TRUE
                                    IN  sb_tally[k].successes + sb_tally[k].failures
                                            + Sum(K \ {k})
                 IN  Sum(DOMAIN sb_tally)

InitScoreboard ==
    /\ SafetyIdle /\ NormIdle /\ LoopIdle /\ PlanIdle /\ GuardIdle
    /\ scores = <<>>
    /\ sb_snapshot = None
    /\ sb_tally = <<>>
    /\ sb_last = [op |-> "none", key |-> <<>>]

\* key, stats = scoreboard.record(command, success)
Record ==
    /\ Recorded < MaxRecords
    /\ \E command \in BoardCommands, success \in BOOLEAN :
        LET r == CommandScoreboard_record(scores, command, success)
            key == Normalize(command)
            before == IF key \in DOMAIN sb_tally THEN sb_tally[key]
                      ELSE [successes |-> 0, failures |-> 0]
        IN  /\ scores' = r.scores
            /\ sb_snapshot' = r.stats
            /\ sb_tally' = (key :> [successes |-> before.successes + (IF success THEN 1 ELSE 0),
                                     failures |-> before.failures + (IF success THEN 0 ELSE 1)])
                              @@ sb_tally
            /\ sb_last' = [op |-> "record", key |-> r.key]
    /\ UNCHANGED <<safetyVars, normVars, loopVars, planner_reply, planVars, guardVars>>

\* key, stats = scoreboard.analyze(command)
Analyze ==
    /\ \E command \in BoardCommands :
        LET r == CommandScoreboard_analyze(scores, command)
        IN  /\ scores' = r.scores
            /\ sb_snapshot' = r.stats
            /\ sb_last' = [op |-> "analyze", key |-> r.key]
    /\ UNCHANGED <<sb_tally, safetyVars, normVars, loopVars, planner_reply, planVars, guardVars>>

\* the caller calls stats.record(success) on the object it was handed
MutateSnapshot ==
    /\ sb_snapshot # None
    /\ CommandStats_total(sb_snapshot[1].stats) <= MaxRecords
    /\ \E success \in BOOLEAN :
        LET changed == CommandStats_record(sb_snapshot[1].stats, success)
        IN  /\ sb_snapshot' = Some([sb_snapshot[1] EXCEPT !.stats = changed])
            /\ scores' = IF sb_snapshot[1].ref = None THEN scores
                         ELSE [scores EXCEPT ![sb_snapshot[1].ref[1]] = changed]
    /\ sb_last' = [op |-> "mutate", key |-> sb_last.key]
    /\ UNCHANGED <<sb_tally, safetyVars, normVars, loopVars, planner_reply, planVars, guardVars>>

SpecScoreboard == InitScoreboard /\ [][Record \/ Analyze \/ MutateSnapshot]_vars

(***************************************************************************)
(* planner.py: the repeated-failure guard of OpenRouterPlanner.suggest.    *)
(* A backend answer is what parse_planner_reply made of one chat request:  *)
(* a PlannerSuggestion, or a PlannerError raised on the way.               *)
(***************************************************************************)
PlannerTurn(suggested_command, executed_command, exit_code) ==
    [suggested_command |-> suggested_command, executed_command |-> executed_command,
     exit_code |-> exit_code]

\* re.sub(r"\s+", " ", s)
RECURSIVE CollapseBlanks(_)
CollapseBlanks(s) ==
    IF s = <<>> THEN <<>>
    ELSE IF IsSpace(s[1]) THEN <<" ">> \o CollapseBlanks(LStrip(s))
    ELSE <<s[1]>> \o CollapseBlanks(Tail(s))

\* normalize_command_text: Optional[str] -> Optional[str]
normalize_command_text(command) ==
    IF command = None THEN None
    ELSE LET normalized == Strip(CollapseBlanks(command[1]))
         IN  IF normalized = <<>> THEN None ELSE Some(normalized)

\* normalize_command_text of these texts, computed once
NormalizedTexts ==
    [text \in {CommandTexts.mock, CommandTexts.ls, CommandTexts.apt, CommandTexts.rm, CommandTexts.DONE, CommandTexts.done} |->
        normalize_command_text(Some(text))]

\* normalize_command_text, looked up for the texts of the goal loop
normalized_text(command) ==
    IF command # None /\ command[1] \in DOMAIN NormalizedTexts
    THEN NormalizedTexts[command[1]]
    ELSE normalize_command_text(command)

\* is_repeated_failure comparing the texts as they are, blanks included
is_repeated_failureRaw(candidate, history) ==
    IF Len(history) < 2 \/ candidate = None \/ candidate = Some(<<>>) THEN FALSE
    ELSE LET last == history[Len(history)]
             prev == history[Len(history) - 1]
         IN  IF last.exit_code = 0 \/ prev.exit_code = 0 THEN FALSE
             ELSE IF candidate[1] # last.executed_command
                     \/ last.executed_command # prev.executed_command THEN FALSE
             ELSE TRUE

\* is_repeated_failure(candidate, history), candidate an Optional[str]
is_repeated_failure(candidate, history) ==
    IF Len(history) < 2 \/ candidate = None \/ candidate = Some(<<>>) THEN FALSE
    ELSE LET last == history[Len(history)]
             prev == history[Len(history) - 1]
             normalized_candidate == normalized_text(candidate)
             last_exec == normalized_text(Some(last.executed_command))
             prev_exec == normalized_text(Some(prev.executed_command))
         IN  IF last.exit_code = 0 \/ prev.exit_code = 0 THEN FALSE
             ELSE IF normalized_candidate = None THEN FALSE
             ELSE IF last_exec = None \/ prev_exec = None THEN FALSE
             ELSE IF normalized_candidate # last_exec \/ last_exec # prev_exec THEN FALSE
             ELSE TRUE

\* one attempt of the loop in OpenRouterPlanner.suggest on a backend answer:
\* "return", "raise" or "retry"
Attempt(answer, history) ==
    IF answer.raised THEN "raise"
    ELSE IF answer.reply[1].mode # "command" THEN "return"
    ELSE IF ~is_repeated_failure(answer.reply[1].command, history) THEN "return"
    ELSE "retry"

\* OpenRouterPlanner.suggest, first and second the backend's answers to the
\* first request and to the request carrying the corrective feedback
OpenRouterPlanner_suggest(first, second, history) ==
    IF Attempt(first, history) = "return" THEN first
    ELSE IF Attempt(first, history) = "raise" THEN Raised
    ELSE IF Attempt(second, history) = "return" THEN second
    ELSE Raised

(***************************************************************************)
(* agent_shell.py: PlanStepState, PlanState and convert_planner_plan.  A   *)
(* step object is named by its position in PlanState.steps.                *)
(***************************************************************************)
PlanStepState(id, title, command, description, step_status) ==
    [id |-> id, title |-> title, command |-> command, description |-> description,
     status |-> step_status, history_indices |-> <<>>]

PlanState(summary, steps) == [summary |-> summary, steps |-> steps]

\* current_step that passes over failed steps as it does over completed ones
PlanState_current_stepSkipsFailed(plan) ==
    LET open == {i \in 1..Len(plan.steps) :
                    plan.steps[i].status \notin {"completed", "failed"}}
    IN  IF open = {} THEN None
        ELSE Some(CHOOSE i \in open : \A j \in open : i <= j)

\* PlanState.current_step: Optional position
PlanState_current_step(plan) ==
    LET open == {i \in 1..Len(plan.steps) : plan.steps[i].status \notin {"completed"}}
    IN  IF open = {} THEN None
        ELSE Some(CHOOSE i \in open : \A j \in open : i <= j)

\* PlanState.get_step: Optional position
PlanState_get_step(plan, step_id) ==
    LET found == {i \in 1..Len(plan.steps) : plan.steps[i].id = step_id}
    IN  IF found = {} THEN None
        ELSE Some(CHOOSE i \in found : \A j \in found : i <= j)

\* mark_running without the test for a completed step
PlanState_mark_runningAny(plan, step_id) ==
    LET step == PlanState_get_step(plan, step_id)
    IN  IF step = None THEN plan
        ELSE [plan EXCEPT !.steps[step[1]].status = "in_progress"]

\* PlanState.mark_running
PlanState_mark_running(plan, step_id) ==
    LET step == PlanState_get_step(plan, step_id)
    IN  IF step = None \/ plan.steps[step[1]].status = "completed" THEN plan
        ELSE [plan EXCEPT !.steps[step[1]].status = "in_progress"]

\* record_result that puts the history index at the front of the list
PlanState_record_resultPrepends(plan, step_id, success, history_index) ==
    LET step == PlanState_get_step(plan, step_id)
    IN  IF step = None THEN plan
        ELSE [plan EXCEPT
                !.steps[step[1]].history_indices =
                    IF history_index # None THEN <<history_index[1]>> \o @ ELSE @,
                !.steps[step[1]].status = IF success THEN "completed" ELSE "failed"]

\* record_result that completes the step whatever the outcome
PlanState_record_resultAlwaysCompleted(plan, step_id, success, history_index) ==
    LET step == PlanState_get_step(plan, step_id)
    IN  IF step = None THEN plan
        ELSE [plan EXCEPT
                !.steps[step[1]].history_indices =
                    IF history_index # None THEN Append(@, history_index[1]) ELSE @,
                !.steps[step[1]].status = "completed"]

\* PlanState.record_result, history_index an Optional[int]
PlanState_record_result(plan, step_id, success, history_index) ==
    LET step == PlanState_get_step(plan, step_id)
    IN  IF step = None THEN plan
        ELSE [plan EXCEPT
                !.steps[step[1]].history_indices =
                    IF history_index # None THEN Append(@, history_index[1]) ELSE @,
                !.steps[step[1]].status = IF success THEN "completed" ELSE "failed"]

\* the status convert_planner_plan gives a step whose payload status is raw
StatusClean(raw) ==
    LET status_clean == IF raw # None /\ raw # Some(<<>>) THEN Str(Lower(Strip(raw[1])))
                        ELSE "pending"
    IN  IF status_clean = "" THEN "pending" ELSE status_clean

\* convert_planner_plan without the test for an empty step list
convert_planner_planKeepsEmpty(plan) ==
    IF plan = None THEN None
    ELSE LET steps == [i \in 1..Len(plan[1].steps) |->
                          LET raw == plan[1].steps[i]
                          IN  PlanStepState(raw.id, raw.title, raw.command, raw.description,
                                            StatusClean(raw.status))]
         IN  Some(PlanState(plan[1].summary, steps))

\* convert_planner_plan: Optional payload -> Optional[PlanState]
convert_planner_plan(plan) ==
    IF plan = None THEN None
    ELSE LET steps == [i \in 1..Len(plan[1].steps) |->
                          LET raw == plan[1].steps[i]
                          IN  PlanStepState(raw.id, raw.title, raw.command, raw.description,
                                            StatusClean(raw.status))]
         IN  IF steps = <<>> THEN None ELSE Some(PlanState(plan[1].summary, steps))

(***************************************************************************)
(* agent_shell.py: the goal loop of main() with its prompts.               *)
(***************************************************************************)
UpperOf(ch) ==
    IF \E i \in 1..26 : Chars.lower[i] = ch
    THEN Chars.upper[CHOOSE i \in 1..26 : Chars.lower[i] = ch]
    ELSE ch

\* str.upper()
Upper(s) == [i \in 1..Len(s) |-> UpperOf(s[i])]

\* what session.prompt gave: a line of text, or KeyboardInterrupt / EOFError
Line(text) == [interrupt |-> FALSE, text |-> text]
Interrupt == [interrupt |-> TRUE, text |-> <<>>]

CommandResult(suggested, executed, returncode, risk_level, safety_notes) ==
    [suggested_command |-> suggested, executed_command |-> executed,
     returncode |-> returncode, risk_level |-> risk_level, safety_notes |-> safety_notes,
     normalized_command |-> None, score |-> None,
     plan_step_id |-> None, plan_step_status |-> None]

\* build_planner_history, the fields of each turn the guard reads
build_planner_history(results) ==
    [i \in 1..Len(results) |->
        PlannerTurn(results[i].suggested_command, results[i].executed_command,
                    results[i].returncode)]

\* prompt_for_command: Optional[str]
prompt_for_command(input) ==
    IF input.interrupt THEN None
    ELSE IF Strip(input.text) = <<>> THEN None
    ELSE Some(input.text)

\* prompt_for_action on one input: Some of "a", "e", "s", or None when the
\* input is rejected and the prompt is shown again
prompt_for_action(input) ==
    IF input.interrupt THEN Some("s")
    ELSE LET normalized == Str(Lower(Strip(input.text)))
         IN  IF normalized = "" THEN Some("a")
             ELSE IF normalized \in {"a", "accept"} THEN Some("a")
             ELSE IF normalized \in {"e", "edit"} THEN Some("e")
             ELSE IF normalized \in {"s", "skip"} THEN Some("s")
             ELSE None


ReturnsBeforePromptMediumOpen(d, disabled) ==
    \/ disabled
    \/ d.level = "low" /\ ~d.require_confirmation
    \/ d.level = "medium"

\* handle_command_risk returns True without asking the operator
ReturnsBeforePrompt(d, disabled) ==
    \/ disabled
    \/ d.level = "low" /\ ~d.require_confirmation
    \/ d.level = "medium" /\ ~d.require_confirmation

\* handle_command_risk on the answer to "High-risk confirmation> "
Confirms(answer) ==
    IF answer.interrupt THEN FALSE
    ELSE ~(Lower(Strip(answer.text)) # Words.proceed)

\* determine_status with the failed history tested before the planner error
determine_statusFailedFirst(history, completed, planner_error, cancelled) ==
    IF history # <<>> /\ history[Len(history)].returncode # 0 THEN "failed"
    ELSE IF planner_error # None /\ planner_error # Some("") THEN "planner_error"
    ELSE IF cancelled THEN "cancelled"
    ELSE IF completed THEN "completed"
    ELSE IF history # <<>> THEN "incomplete"
    ELSE "no_action"

\* determine_status
determine_status(history, completed, planner_error, cancelled) ==
    IF planner_error # None /\ planner_error # Some("") THEN "planner_error"
    ELSE IF cancelled /\ history = <<>> THEN "cancelled"
    ELSE IF completed /\ history # <<>> /\ history[Len(history)].returncode = 0
         THEN "completed"
    ELSE IF history # <<>> /\ history[Len(history)].returncode # 0 THEN "failed"
    ELSE IF cancelled THEN "cancelled"
    ELSE IF completed THEN "completed"
    ELSE IF history # <<>> THEN "incomplete"
    ELSE "no_action"

\* the commands executed so far in the whole process
Executions ==
    LET RECURSIVE Sum(_)
        Sum(K) == IF K = {} THEN 0
                  ELSE LET k == CHOOSE x \in K : TRUE
                       IN  CommandStats_total(scores[k]) + Sum(K \ {k})
    IN  Sum(DOMAIN scores)

\* the commands the planner suggests and the texts the operator types instead
LoopCommands ==
    [suggested |-> {CommandTexts.ls, CommandTexts.apt}, edit |-> {CommandTexts.rm}]

\* assess_command_risk under the built-in policy main() falls back to, on the
\* texts that reach the "Command> " prompt
RiskTable ==
    [command \in {CommandTexts.mock} \cup LoopCommands.suggested \cup LoopCommands.edit |->
        SafetyPolicy_evaluate(SafetyPolicy_default, command)]
assess_command_risk(command) == RiskTable[command]

\* plan payloads of plan-mode replies
PayloadStep(id, raw_status) ==
    [id |-> id, title |-> None, command |-> None, description |-> None, status |-> raw_status]
PlanPayloads ==
    { [summary |-> None, steps |-> <<>>],
      [summary |-> None, steps |-> <<PayloadStep("s1", None), PayloadStep("s2", None)>>],
      [summary |-> None,
       steps |-> <<PayloadStep("s1", Some(<<" ", "D", "o", "n", "e">>)),
                   PayloadStep("s1", None)>>],
      [summary |-> None,
       steps |-> <<PayloadStep("s1", Some(<<"c", "o", "m", "p", "l", "e", "t", "e", "d">>))>>] }

\* the answers of the planner backend to one request
BackendAnswers ==
    {Returned(PlannerSuggestion("command", Some(c), None, None)) :
        c \in LoopCommands.suggested \cup {CommandTexts.DONE, CommandTexts.done}}
    \cup {Returned(PlannerSuggestion("command", None, None, None)),
          Returned(PlannerSuggestion("chat", None, Some("message"), None)),
          Raised}
    \cup {Returned(PlannerSuggestion("plan", None, None, Some(p))) : p \in PlanPayloads}

\* what planner.suggest can hand to main() for the current goal history
SuggestOutcomes ==
    LET history == build_planner_history(goal_history)
    IN  IF planner_name = "mock" THEN {MockCommandPlanner_suggest(<<"g">>)}
        ELSE
        UNION {IF Attempt(first, history) = "retry"
               THEN {OpenRouterPlanner_suggest(first, second, history) :
                        second \in BackendAnswers}
               ELSE {OpenRouterPlanner_suggest(first, first, history)} :
               first \in BackendAnswers}

\* the lines the operator gives at the three prompts
CommandInputs == {Line(current), Line(<<" ">>), Interrupt} \cup {Line(c) : c \in LoopCommands.edit}
PromptInputs ==
    [ action |-> {Line(<<>>), Line(<<"A">>), Line(<<"e">>), Line(<<" ", "s">>),
                  Line(<<"x">>), Interrupt},
      confirm |-> {Line(Words.proceed), Line(Words.PROCEED),
                   Line(<<" ">> \o Words.proceed \o <<"\t">>),
                   Line(<<>>), Line(<<"y">>), Interrupt} ]

(***************************************************************************)
(* Spec: the process from the first "User> " prompt on.  pc is the place   *)
(* where main() waits: "idle" at the goal prompt, "suggest" in             *)
(* planner.suggest, "command_prompt", "action_prompt" and "confirm_prompt" *)
(* at the operator's prompts, "executing" in the subprocess.               *)
(***************************************************************************)
Init ==
    /\ SafetyIdle /\ NormIdle /\ PlanIdle /\ GuardIdle /\ TurnIdle /\ StatusIdle /\ LoadIdle
    /\ StreamIdle
    /\ planner_reply = None
    /\ scores = <<>> /\ sb_snapshot = None /\ sb_tally = <<>>
    /\ sb_last = [op |-> "none", key |-> <<>>]
    /\ pc = "idle"
    /\ safety_disabled \in BOOLEAN
    /\ planner_name \in {"mock", "openrouter"}
    /\ run_count = <<>>
    /\ goal_history = <<>> /\ planner_error_msg = None
    /\ user_cancelled = FALSE /\ planner_completed = FALSE
    /\ conversation_messages = <<>> /\ active_plan = None
    /\ command_suggestion = <<>> /\ current = <<>> /\ edited = <<>>
    /\ decision = None /\ active_step = None /\ response = None /\ status = None

fixedVars == <<safetyVars, normVars, harnessVars, planVars, guardVars, turnVars, statusVars,
               loadVars, streamVars, safety_disabled, planner_name>>
reviewVars == <<command_suggestion, current, edited, decision, active_step, response>>
goalVars == <<goal_history, planner_error_msg, user_cancelled, planner_completed,
              conversation_messages, active_plan>>

\* the locals of one iteration of the inner loop are gone when it ends; the
\* answer to a refused confirmation stays on record until the next goal
DropLocals ==
    /\ command_suggestion' = <<>> /\ current' = <<>> /\ edited' = <<>>
    /\ decision' = None /\ active_step' = None /\ response' = None

\* main() lines 909-942, after the inner loop was left with these values
Finish(history, completed, planner_error, cancelled, messages, plan) ==
    /\ status' = IF \/ history # <<>>
                    \/ (planner_error # None /\ planner_error # Some(""))
                    \/ cancelled \/ messages # <<>> \/ plan # None
                 THEN Some(determine_status(history, completed, planner_error, cancelled))
                 ELSE None
    /\ pc' = "idle"

\* main() lines 843-847: the step is marked and the subprocess is started
Launch ==
    /\ active_plan' = IF active_plan # None /\ active_step # None
                      THEN Some(PlanState_mark_running(
                                    active_plan[1], active_plan[1].steps[active_step[1]].id))
                      ELSE active_plan
    /\ pc' = "executing"

\* a goal that starts with an empty scoreboard
StartGoalResetsScores ==
    /\ pc = "idle"
    /\ goal_history' = <<>> /\ planner_error_msg' = None
    /\ user_cancelled' = FALSE /\ planner_completed' = FALSE
    /\ conversation_messages' = <<>> /\ active_plan' = None
    /\ pc' = "suggest" /\ status' = None
    /\ response' = None
    /\ planner_reply' = None
    /\ scores' = <<>>
    /\ UNCHANGED <<fixedVars, run_count, command_suggestion, current, edited, decision,
                   active_step>>

\* a goal is entered at "User> "
StartGoal ==
    /\ pc = "idle"
    /\ goal_history' = <<>> /\ planner_error_msg' = None
    /\ user_cancelled' = FALSE /\ planner_completed' = FALSE
    /\ conversation_messages' = <<>> /\ active_plan' = None
    /\ pc' = "suggest" /\ status' = None
    /\ response' = None
    /\ planner_reply' = None
    /\ UNCHANGED <<fixedVars, run_count, scores, command_suggestion, current, edited, decision,
                   active_step>>

\* planner.suggest raises PlannerError
PlannerFails ==
    /\ pc = "suggest"
    /\ \E o \in SuggestOutcomes : o.raised
    /\ planner_error_msg' = Some("planner error")
    /\ Finish(goal_history, planner_completed, planner_error_msg', user_cancelled,
              conversation_messages, active_plan)
    /\ planner_reply' = None
    /\ UNCHANGED <<fixedVars, run_count, reviewVars, scores, goal_history, user_cancelled,
                   planner_completed, conversation_messages, active_plan>>

\* a plan that keeps, for the ids it shares with the plan before it, the
\* status and the history indices recorded there
ActivePlanAfterMerged(active, new_plan) ==
    IF new_plan = None THEN active
    ELSE IF active = None THEN new_plan
    ELSE Some([new_plan[1] EXCEPT !.steps =
            [i \in 1..Len(new_plan[1].steps) |->
                LET step == PlanState_get_step(active[1], new_plan[1].steps[i].id)
                IN  IF step = None THEN new_plan[1].steps[i]
                    ELSE [new_plan[1].steps[i] EXCEPT
                            !.status = active[1].steps[step[1]].status,
                            !.history_indices = active[1].steps[step[1]].history_indices]]])

\* main() lines 764-768: the value of active_plan after a plan-mode reply
ActivePlanAfter(active, new_plan) ==
    IF new_plan = None THEN active ELSE new_plan

\* planner.suggest returns a plan-mode reply
PlanReply ==
    /\ pc = "suggest"
    /\ \E o \in SuggestOutcomes :
        /\ ~o.raised /\ o.reply[1].mode = "plan"
        /\ planner_reply' = o.reply
        /\ LET new_plan == convert_planner_plan(o.reply[1].plan)
           IN  active_plan' = ActivePlanAfter(active_plan, new_plan)
    /\ UNCHANGED <<fixedVars, run_count, reviewVars, scores, pc, status, goal_history,
                   planner_error_msg, user_cancelled, planner_completed,
                   conversation_messages>>

\* planner.suggest returns a chat-mode reply
ChatReply ==
    /\ pc = "suggest"
    /\ \E o \in SuggestOutcomes :
        /\ ~o.raised /\ o.reply[1].mode = "chat"
        /\ LET message == IF o.reply[1].message = None THEN "" ELSE o.reply[1].message[1]
           IN  conversation_messages' = Append(conversation_messages, message)
    /\ planner_completed' = TRUE
    /\ Finish(goal_history, planner_completed', planner_error_msg, user_cancelled,
              conversation_messages', active_plan)
    /\ planner_reply' = None
    /\ UNCHANGED <<fixedVars, run_count, reviewVars, scores, goal_history, planner_error_msg,
                   user_cancelled, active_plan>>

\* the text main() takes from a command-mode reply
SuggestionText(reply) == Strip(IF reply.command = None THEN <<>> ELSE reply.command[1])

\* planner.suggest returns a command-mode reply with no command text
EmptyCommandReply ==
    /\ pc = "suggest"
    /\ \E o \in SuggestOutcomes :
        /\ ~o.raised /\ o.reply[1].mode = "command"
        /\ SuggestionText(o.reply[1]) = <<>>
    /\ planner_error_msg' = Some("empty command")
    /\ Finish(goal_history, planner_completed, planner_error_msg', user_cancelled,
              conversation_messages, active_plan)
    /\ planner_reply' = None
    /\ UNCHANGED <<fixedVars, run_count, reviewVars, scores, goal_history, user_cancelled,
                   planner_completed, conversation_messages, active_plan>>

\* DONE taken as completion whatever the last exit code was
DoneReplyAlways ==
    /\ pc = "suggest"
    /\ \E o \in SuggestOutcomes :
        /\ ~o.raised /\ o.reply[1].mode = "command"
        /\ SuggestionText(o.reply[1]) # <<>>
        /\ Upper(SuggestionText(o.reply[1])) = CommandTexts.DONE
    /\ planner_completed' = TRUE
    /\ Finish(goal_history, planner_completed', planner_error_msg,
              user_cancelled, conversation_messages, active_plan)
    /\ planner_reply' = None
    /\ UNCHANGED <<fixedVars, run_count, reviewVars, scores, goal_history, planner_error_msg,
                   user_cancelled, conversation_messages, active_plan>>

\* planner.suggest returns the command DONE
DoneReply ==
    /\ pc = "suggest"
    /\ \E o \in SuggestOutcomes :
        /\ ~o.raised /\ o.reply[1].mode = "command"
        /\ SuggestionText(o.reply[1]) # <<>>
        /\ Upper(SuggestionText(o.reply[1])) = CommandTexts.DONE
        /\ LET last_return_code == IF goal_history # <<>>
                                   THEN goal_history[Len(goal_history)].returncode ELSE 0
           IN  IF last_return_code = 0
               THEN /\ planner_completed' = TRUE
                    /\ Finish(goal_history, planner_completed', planner_error_msg,
                              user_cancelled, conversation_messages, active_plan)
                    /\ planner_reply' = None
               ELSE /\ planner_reply' = o.reply
                    /\ UNCHANGED <<planner_completed, pc, status>>
    /\ UNCHANGED <<fixedVars, run_count, reviewVars, scores, goal_history, planner_error_msg,
                   user_cancelled, conversation_messages, active_plan>>

\* planner.suggest returns a command, which goes to review; the backend of
\* OpenRouterPlanner sends no command once MaxExecutions commands were executed
CommandReply ==
    /\ pc = "suggest"
    /\ planner_name = "openrouter" => Executions < MaxExecutions
    /\ \E o \in SuggestOutcomes :
        /\ ~o.raised /\ o.reply[1].mode = "command"
        /\ SuggestionText(o.reply[1]) # <<>>
        /\ Upper(SuggestionText(o.reply[1])) # CommandTexts.DONE
        /\ command_suggestion' = SuggestionText(o.reply[1])
    /\ scores' = CommandScoreboard_analyze(scores, command_suggestion').scores
    /\ active_step' = IF active_plan # None THEN PlanState_current_step(active_plan[1])
                      ELSE None
    /\ current' = command_suggestion'
    /\ pc' = "command_prompt"
    /\ response' = None
    /\ planner_reply' = None
    /\ UNCHANGED <<fixedVars, run_count, goalVars, edited, decision, status>>

\* the text entered at "Command> " is reviewed with the decision of the
\* planner's suggestion
CommandEnteredSuggestedRisk ==
    /\ pc = "command_prompt"
    /\ Executions < MaxExecutions
    /\ \E input \in CommandInputs :
        /\ prompt_for_command(input) # None
        /\ edited' = prompt_for_command(input)[1]
    /\ decision' = Some(assess_command_risk(command_suggestion))
    /\ scores' = CommandScoreboard_analyze(scores, edited').scores
    /\ pc' = "action_prompt"
    /\ UNCHANGED <<fixedVars, run_count, planner_reply, goalVars, command_suggestion, current, active_step,
                   response, status>>

\* review_command_flow: the operator enters a command text at "Command> ", and
\* enters none once MaxExecutions commands were executed
CommandEntered ==
    /\ pc = "command_prompt"
    /\ Executions < MaxExecutions
    /\ \E input \in CommandInputs :
        /\ prompt_for_command(input) # None
        /\ edited' = prompt_for_command(input)[1]
    /\ decision' = Some(assess_command_risk(edited'))
    /\ scores' = CommandScoreboard_analyze(scores, edited').scores
    /\ pc' = "action_prompt"
    /\ UNCHANGED <<fixedVars, run_count, planner_reply, goalVars, command_suggestion, current, active_step,
                   response, status>>

\* review_command_flow: a blank line or an interrupt at "Command> "
CommandSkipped ==
    /\ pc = "command_prompt"
    /\ \E input \in CommandInputs : prompt_for_command(input) = None
    /\ user_cancelled' = TRUE
    /\ Finish(goal_history, planner_completed, planner_error_msg, user_cancelled',
              conversation_messages, active_plan)
    /\ DropLocals
    /\ UNCHANGED <<fixedVars, run_count, planner_reply, scores, goal_history, planner_error_msg,
                   planner_completed, conversation_messages, active_plan>>

\* "Action [A/E/S]> " answered with accept: handle_command_risk decides or asks
ActionAccept ==
    /\ pc = "action_prompt"
    /\ \E input \in PromptInputs.action : prompt_for_action(input) = Some("a")
    /\ IF ReturnsBeforePrompt(decision[1], safety_disabled)
       THEN Launch
       ELSE pc' = "confirm_prompt" /\ UNCHANGED active_plan
    /\ UNCHANGED <<fixedVars, run_count, planner_reply, reviewVars, scores, status, goal_history, planner_error_msg,
                   user_cancelled, planner_completed, conversation_messages>>

\* "Action [A/E/S]> " answered with edit: back to "Command> "
ActionEdit ==
    /\ pc = "action_prompt"
    /\ \E input \in PromptInputs.action : prompt_for_action(input) = Some("e")
    /\ current' = edited
    /\ pc' = "command_prompt"
    /\ UNCHANGED <<fixedVars, run_count, planner_reply, goalVars, scores, command_suggestion, edited, decision,
                   active_step, response, status>>

\* "Action [A/E/S]> " answered with skip, or interrupted
ActionSkip ==
    /\ pc = "action_prompt"
    /\ \E input \in PromptInputs.action : prompt_for_action(input) = Some("s")
    /\ user_cancelled' = TRUE
    /\ Finish(goal_history, planner_completed, planner_error_msg, user_cancelled',
              conversation_messages, active_plan)
    /\ DropLocals
    /\ UNCHANGED <<fixedVars, run_count, planner_reply, scores, goal_history, planner_error_msg,
                   planner_completed, conversation_messages, active_plan>>

\* "High-risk confirmation> " answered so that handle_command_risk returns True
ConfirmProceed ==
    /\ pc = "confirm_prompt"
    /\ \E answer \in PromptInputs.confirm :
        /\ Confirms(answer)
        /\ response' = Some(answer)
    /\ Launch
    /\ UNCHANGED <<fixedVars, run_count, planner_reply, scores, status, command_suggestion, current, edited,
                   decision, active_step, goal_history, planner_error_msg, user_cancelled,
                   planner_completed, conversation_messages>>

\* a refusal at the confirmation prompt counted as a failure of the command
ConfirmRefuseRecordsFailure ==
    /\ pc = "confirm_prompt"
    /\ \E answer \in PromptInputs.confirm :
        /\ ~Confirms(answer)
        /\ response' = Some(answer)
    /\ user_cancelled' = TRUE
    /\ scores' = CommandScoreboard_record(scores, edited, FALSE).scores
    /\ Finish(goal_history, planner_completed, planner_error_msg, user_cancelled',
              conversation_messages, active_plan)
    /\ command_suggestion' = <<>> /\ current' = <<>> /\ edited' = <<>>
    /\ decision' = None /\ active_step' = None
    /\ UNCHANGED <<fixedVars, run_count, planner_reply, goal_history, planner_error_msg,
                   planner_completed, conversation_messages, active_plan>>

\* "High-risk confirmation> " answered otherwise, or interrupted
ConfirmRefuse ==
    /\ pc = "confirm_prompt"
    /\ \E answer \in PromptInputs.confirm :
        /\ ~Confirms(answer)
        /\ response' = Some(answer)
    /\ user_cancelled' = TRUE
    /\ Finish(goal_history, planner_completed, planner_error_msg, user_cancelled',
              conversation_messages, active_plan)
    /\ command_suggestion' = <<>> /\ current' = <<>> /\ edited' = <<>>
    /\ decision' = None /\ active_step' = None
    /\ UNCHANGED <<fixedVars, run_count, planner_reply, scores, goal_history, planner_error_msg, planner_completed,
                   conversation_messages, active_plan>>

\* the exit codes of a subprocess
ExitCodes == {0, 1}

\* the subprocess exits, and a failed command ends the goal
CommandExitsStopsOnFailure ==
    /\ pc = "executing"
    /\ \E returncode \in ExitCodes :
        LET success == returncode = 0
            result == CommandResult(command_suggestion, edited, returncode,
                                    decision[1].level, decision[1].notes)
            recorded == CommandScoreboard_record(scores, result.executed_command, success)
            step_id == IF active_step # None
                       THEN Some(active_plan[1].steps[active_step[1]].id) ELSE None
            history_index == Len(goal_history)
            plan == IF active_plan # None /\ active_step # None
                    THEN Some(PlanState_record_result(active_plan[1], step_id[1], success,
                                                      Some(history_index)))
                    ELSE active_plan
            final == [result EXCEPT
                        !.normalized_command =
                            Some(IF recorded.key # <<>> THEN recorded.key
                                 ELSE result.executed_command),
                        !.score = Some(CommandStats_to_dict(recorded.stats[1].stats)),
                        !.plan_step_id = step_id,
                        !.plan_step_status =
                            IF active_plan # None /\ active_step # None
                            THEN Some(plan[1].steps[active_step[1]].status) ELSE None]
        IN  /\ scores' = recorded.scores
            /\ run_count' = (result.executed_command :>
                                (IF result.executed_command \in DOMAIN run_count
                                 THEN run_count[result.executed_command] + 1 ELSE 1))
                            @@ run_count
            /\ goal_history' = Append(goal_history, final)
            /\ active_plan' = plan
            /\ IF success
               THEN pc' = "suggest" /\ UNCHANGED status
               ELSE Finish(goal_history', planner_completed, planner_error_msg,
                           user_cancelled, conversation_messages, plan)
    /\ DropLocals
    /\ UNCHANGED <<fixedVars, planner_reply, planner_error_msg, user_cancelled,
                   planner_completed, conversation_messages>>

\* the subprocess exits, and the score of the earlier results of the same key
\* is brought up to date
CommandExitsRestamps ==
    /\ pc = "executing"
    /\ \E returncode \in ExitCodes :
        LET success == returncode = 0
            result == CommandResult(command_suggestion, edited, returncode,
                                    decision[1].level, decision[1].notes)
            recorded == CommandScoreboard_record(scores, result.executed_command, success)
            step_id == IF active_step # None
                       THEN Some(active_plan[1].steps[active_step[1]].id) ELSE None
            history_index == Len(goal_history)
            plan == IF active_plan # None /\ active_step # None
                    THEN Some(PlanState_record_result(active_plan[1], step_id[1], success,
                                                      Some(history_index)))
                    ELSE active_plan
            final == [result EXCEPT
                        !.normalized_command =
                            Some(IF recorded.key # <<>> THEN recorded.key
                                 ELSE result.executed_command),
                        !.score = Some(CommandStats_to_dict(recorded.stats[1].stats)),
                        !.plan_step_id = step_id,
                        !.plan_step_status =
                            IF active_plan # None /\ active_step # None
                            THEN Some(plan[1].steps[active_step[1]].status) ELSE None]
        IN  /\ scores' = recorded.scores
            /\ run_count' = (result.executed_command :>
                                (IF result.executed_command \in DOMAIN run_count
                                 THEN run_count[result.executed_command] + 1 ELSE 1))
                            @@ run_count
            /\ goal_history' =
                    Append([k \in 1..Len(goal_history) |->
                               IF goal_history[k].normalized_command = final.normalized_command
                               THEN [goal_history[k] EXCEPT !.score = final.score]
                               ELSE goal_history[k]],
                           final)
            /\ active_plan' = plan
    /\ pc' = "suggest"
    /\ DropLocals
    /\ UNCHANGED <<fixedVars, planner_reply, status, planner_error_msg, user_cancelled,
                   planner_completed, conversation_messages>>

\* the subprocess exits: main() lines 854-907
CommandExits ==
    /\ pc = "executing"
    /\ \E returncode \in ExitCodes :
        LET success == returncode = 0
            result == CommandResult(command_suggestion, edited, returncode,
                                    decision[1].level, decision[1].notes)
            recorded == CommandScoreboard_record(scores, result.executed_command, success)
            step_id == IF active_step # None
                       THEN Some(active_plan[1].steps[active_step[1]].id) ELSE None
            history_index == Len(goal_history)
            plan == IF active_plan # None /\ active_step # None
                    THEN Some(PlanState_record_result(active_plan[1], step_id[1], success,
                                                      Some(history_index)))
                    ELSE active_plan
            final == [result EXCEPT
                        !.normalized_command =
                            Some(IF recorded.key # <<>> THEN recorded.key
                                 ELSE result.executed_command),
                        !.score = Some(CommandStats_to_dict(recorded.stats[1].stats)),
                        !.plan_step_id = step_id,
                        !.plan_step_status =
                            IF active_plan # None /\ active_step # None
                            THEN Some(plan[1].steps[active_step[1]].status) ELSE None]
        IN  /\ scores' = recorded.scores
            /\ run_count' = (result.executed_command :>
                                (IF result.executed_command \in DOMAIN run_count
                                 THEN run_count[result.executed_command] + 1 ELSE 1))
                            @@ run_count
            /\ goal_history' = Append(goal_history, final)
            /\ active_plan' = plan
    /\ pc' = "suggest"
    /\ DropLocals
    /\ UNCHANGED <<fixedVars, planner_reply, status, planner_error_msg, user_cancelled,
                   planner_completed, conversation_messages>>

Next ==
    \/ StartGoal
    \/ PlannerFails \/ PlanReply \/ ChatReply \/ EmptyCommandReply \/ DoneReply
    \/ CommandReply
    \/ CommandEntered \/ CommandSkipped
    \/ ActionAccept \/ ActionEdit \/ ActionSkip
    \/ ConfirmProceed \/ ConfirmRefuse
    \/ CommandExits

Spec == Init /\ [][Next]_vars

\* planner.suggest returns or raises
PlannerReturns ==
    PlannerFails \/ PlanReply \/ ChatReply \/ EmptyCommandReply \/ DoneReply \/ CommandReply

\* the operator answers the prompt main() waits at
OperatorAnswers ==
    \/ CommandEntered \/ CommandSkipped
    \/ ActionAccept \/ ActionEdit \/ ActionSkip
    \/ ConfirmProceed \/ ConfirmRefuse

\* the operator leaves review_command_flow: accepts, skips or cancels
OperatorDecides == ActionAccept \/ ActionSkip \/ CommandSkipped

\* the goal loop when every planner call returns, every prompt is answered,
\* the operator does not edit one suggestion forever and every subprocess
\* exits
SpecFair ==
    /\ Spec
    /\ WF_vars(PlannerReturns) /\ WF_vars(CommandExits)
    /\ WF_vars(OperatorAnswers) /\ SF_vars(OperatorDecides)

(***************************************************************************)
(* SpecPlan: one PlanState object, built by convert_planner_plan from a    *)
(* plan payload, under any sequence of mark_running and record_result      *)
(* calls, with current_step() asked in between.                            *)
(***************************************************************************)
\* the payloads the PlanState objects are built from: steps without a
\* status, with the status "completed", "failed" or " Done", ids repeated
StartPayloads ==
    LET completed == Some(<<"c", "o", "m", "p", "l", "e", "t", "e", "d">>)
        failed == Some(<<"f", "a", "i", "l", "e", "d">>)
        Done == Some(<<" ", "D", "o", "n", "e">>)
    IN  { [summary |-> None, steps |-> <<PayloadStep("s1", None), PayloadStep("s2", None)>>],
          [summary |-> Some("fix"),
           steps |-> <<PayloadStep("s1", completed), PayloadStep("s2", failed)>>],
          [summary |-> None, steps |-> <<PayloadStep("s1", None), PayloadStep("s1", None)>>],
          [summary |-> None,
           steps |-> <<PayloadStep("s1", completed), PayloadStep("s1", None)>>],
          [summary |-> None, steps |-> <<PayloadStep("s2", Done)>>] }

\* the step ids the calls name; no payload has a step "s3"
StepIds == {"s1", "s2", "s3"}

MarkCall(step_id) ==
    [op |-> "mark_running", id |-> step_id, success |-> FALSE, history_index |-> None]
RecordCall(step_id, success, history_index) ==
    [op |-> "record_result", id |-> step_id, success |-> success,
     history_index |-> history_index]

InitPlan ==
    /\ SafetyIdle /\ NormIdle /\ BoardIdle /\ LoopIdle /\ GuardIdle
    /\ ps_plan \in {convert_planner_plan(Some(payload))[1] : payload \in StartPayloads}
    /\ ps_start = Some(ps_plan)
    /\ ps_log = <<>> /\ ps_before = None /\ ps_current = None

\* plan.mark_running(step_id)
MarkRunning ==
    /\ Len(ps_log) < MaxCalls
    /\ \E step_id \in StepIds :
        /\ ps_plan' = PlanState_mark_running(ps_plan, step_id)
        /\ ps_log' = Append(ps_log, MarkCall(step_id))
    /\ ps_before' = Some(ps_plan)
    /\ ps_current' = None
    /\ UNCHANGED ps_start
    /\ UNCHANGED <<safetyVars, normVars, boardVars, loopVars, planner_reply, guardVars>>

\* plan.record_result(step_id, success, history_index), the index None or,
\* as in main(), the number of results recorded before this one
RecordResult ==
    /\ Len(ps_log) < MaxCalls
    /\ \E step_id \in StepIds, success \in BOOLEAN,
          history_index \in
            {None, Some(Cardinality({k \in 1..Len(ps_log) : ps_log[k].op = "record_result"}))} :
        /\ ps_plan' = PlanState_record_result(ps_plan, step_id, success, history_index)
        /\ ps_log' = Append(ps_log, RecordCall(step_id, success, history_index))
    /\ ps_before' = Some(ps_plan)
    /\ ps_current' = None
    /\ UNCHANGED ps_start
    /\ UNCHANGED <<safetyVars, normVars, boardVars, loopVars, planner_reply, guardVars>>

\* plan.current_step()
CurrentStep ==
    /\ ps_current = None
    /\ ps_current' = Some(PlanState_current_step(ps_plan))
    /\ UNCHANGED <<ps_start, ps_plan, ps_log, ps_before>>
    /\ UNCHANGED <<safetyVars, normVars, boardVars, loopVars, planner_reply, guardVars>>

SpecPlan == InitPlan /\ [][MarkRunning \/ RecordResult \/ CurrentStep]_vars

(***************************************************************************)
(* SpecGuard: is_repeated_failure(candidate, history) on candidates and    *)
(* histories of up to MaxTurns turns.                                      *)
(***************************************************************************)
\* executed commands: "l s", the same with two blanks inside, "ls", a blank
GuardTexts == {<<"l", " ", "s">>, <<"l", " ", " ", "s">>, <<"l", "s">>, <<" ">>}

\* candidates: None, "", a blank, "l s", the same padded with a tab inside, "ls"
GuardCandidates ==
    {None, Some(<<>>), Some(<<" ">>), Some(<<"l", " ", "s">>),
     Some(<<" ", "l", "\t", "s", " ">>), Some(<<"l", "s">>)}

\* histories of PlannerTurn with exit codes 0, 1 and -1
GuardHistories ==
    UNION {[1..n -> {PlannerTurn(<<"l", "s">>, executed, code) :
                        executed \in GuardTexts, code \in {0, 1, -1}}] : n \in 0..MaxTurns}

InitGuard ==
    /\ SafetyIdle /\ NormIdle /\ BoardIdle /\ LoopIdle /\ PlanIdle
    /\ rf_candidate \in GuardCandidates
    /\ rf_history \in GuardHistories
    /\ rf_result = None

\* is_repeated_failure(candidate, history) is called
CheckRepeat ==
    /\ rf_result = None
    /\ rf_result' = Some(is_repeated_failure(rf_candidate, rf_history))
    /\ UNCHANGED <<rf_candidate, rf_history>>
    /\ UNCHANGED <<safetyVars, normVars, boardVars, loopVars, planner_reply, planVars>>

SpecGuard == InitGuard /\ [][CheckRepeat]_vars

(***************************************************************************)
(* SpecTurn: one call of OpenRouterPlanner.suggest made by main(), the     *)
(* loop "for attempt in range(2)" taken pass by pass, and main()'s         *)
(* handler of the PlannerError it raises.                                  *)
(***************************************************************************)
\* OpenRouterPlanner._build_messages: the system prompt, two messages per
\* turn of the history, and the goal
build_messages(history) ==
    LET RECURSIVE Turns(_)
        Turns(i) ==
            IF i > Len(history) THEN <<>>
            ELSE << [role |-> "assistant",
                     content |-> [command |-> history[i].suggested_command]],
                    [role |-> "user",
                     content |-> [executed_command |-> history[i].executed_command,
                                  exit_code |-> history[i].exit_code]] >>
                 \o Turns(i + 1)
    IN  <<[role |-> "system", content |-> [prompt |-> "system_prompt"]]>>
        \o Turns(1)
        \o <<[role |-> "user", content |-> [goal |-> "goal"]]>>

\* build_repeat_feedback
build_repeat_feedback(history) ==
    LET last == history[Len(history)]
        prev == history[Len(history) - 1]
        normal == normalize_command_text(Some(last.executed_command))
        command_display == IF normal # None THEN normal[1] ELSE last.executed_command
    IN  [role |-> "user",
         content |-> [agent_note |-> [cmd |-> command_display,
                                      prev_code |-> prev.exit_code,
                                      last_code |-> last.exit_code]]]

InitTurn ==
    /\ SafetyIdle /\ NormIdle /\ BoardIdle /\ MainIdle /\ PlanIdle /\ GuardIdle /\ StreamIdle
    /\ StatusIdle /\ LoadIdle
    /\ tn_history \in GuardHistories
    /\ tn_attempt = 0
    /\ tn_messages = build_messages(tn_history)
    /\ tn_log = <<>>
    /\ tn_outcome = None /\ tn_status = None

\* a second corrective message is put after the first and the backend is
\* asked a third time
ChatRequestRetriesTwice ==
    /\ tn_outcome = None /\ tn_attempt < 3
    /\ \E answer \in BackendAnswers :
        /\ tn_log' = Append(tn_log, [messages |-> tn_messages, answer |-> answer])
        /\ IF Attempt(answer, tn_history) = "raise"
           THEN tn_outcome' = Some(Raised) /\ UNCHANGED <<tn_attempt, tn_messages>>
           ELSE IF Attempt(answer, tn_history) = "return"
           THEN tn_outcome' = Some(answer) /\ UNCHANGED <<tn_attempt, tn_messages>>
           ELSE IF tn_attempt < 2
           THEN /\ tn_messages' = Append(tn_messages, build_repeat_feedback(tn_history))
                /\ tn_attempt' = tn_attempt + 1
                /\ UNCHANGED tn_outcome
           ELSE tn_outcome' = Some(Raised) /\ UNCHANGED <<tn_attempt, tn_messages>>
    /\ UNCHANGED <<tn_history, tn_status>>
    /\ UNCHANGED <<safetyVars, normVars, boardVars, mainVars, planner_reply, planVars, guardVars, streamVars,
                   statusVars, loadVars>>

\* one pass of the loop of OpenRouterPlanner.suggest: _chat is called with
\* the messages, and its answer is returned, raised, or asked for again
ChatRequest ==
    /\ tn_outcome = None /\ tn_attempt < 2
    /\ \E answer \in BackendAnswers :
        /\ tn_log' = Append(tn_log, [messages |-> tn_messages, answer |-> answer])
        /\ IF Attempt(answer, tn_history) = "raise"
           THEN tn_outcome' = Some(Raised) /\ UNCHANGED <<tn_attempt, tn_messages>>
           ELSE IF Attempt(answer, tn_history) = "return"
           THEN tn_outcome' = Some(answer) /\ UNCHANGED <<tn_attempt, tn_messages>>
           ELSE IF tn_attempt = 0
           THEN /\ tn_messages' = build_messages(tn_history)
                                   \o <<build_repeat_feedback(tn_history)>>
                /\ tn_attempt' = tn_attempt + 1
                /\ UNCHANGED tn_outcome
           ELSE tn_outcome' = Some(Raised) /\ UNCHANGED <<tn_attempt, tn_messages>>
    /\ UNCHANGED <<tn_history, tn_status>>
    /\ UNCHANGED <<safetyVars, normVars, boardVars, mainVars, planner_reply, planVars, guardVars, streamVars,
                   statusVars, loadVars>>

\* main() lines 752-760 and 909-910: the PlannerError is caught, the inner
\* loop is left and the status of the goal is derived
MainCatches ==
    /\ tn_outcome = Some(Raised) /\ tn_status = None
    /\ tn_status' = Some(determine_status(
                            [i \in 1..Len(tn_history) |->
                                [returncode |-> tn_history[i].exit_code]],
                            FALSE, Some("planner error"), FALSE))
    /\ UNCHANGED <<tn_history, tn_attempt, tn_messages, tn_log, tn_outcome>>
    /\ UNCHANGED <<safetyVars, normVars, boardVars, mainVars, planner_reply, planVars, guardVars, streamVars,
                   statusVars, loadVars>>

SpecTurn == InitTurn /\ [][ChatRequest \/ MainCatches]_vars

(***************************************************************************)
(* SpecStatus: one call of determine_status.  chat tells whether           *)
(* planner_completed was set by a chat-mode reply (main() lines 779-786),  *)
(* which determine_status itself is not told.                              *)
(***************************************************************************)
\* goal histories of at most two executions with exit codes 0, 1 and -1
StatusHistories ==
    UNION {[1..n -> {CommandResult(CommandTexts.ls, CommandTexts.ls, returncode, "low", None) :
                        returncode \in {0, 1, -1}}] : n \in 0..2}

InitStatus ==
    /\ SafetyIdle /\ NormIdle /\ BoardIdle /\ MainIdle /\ PlanIdle /\ GuardIdle /\ StreamIdle
    /\ TurnIdle /\ LoadIdle
    /\ ds_args \in [history : StatusHistories, completed : BOOLEAN,
                     planner_error : {None, Some("planner error"), Some("empty command")},
                     cancelled : BOOLEAN, chat : BOOLEAN]
    /\ ds_args.chat => ds_args.completed
    /\ ds_result = None

\* determine_status(goal_history, planner_completed, planner_error_msg,
\* user_cancelled) is called
DetermineStatus ==
    /\ ds_result = None
    /\ ds_result' = Some(determine_status(ds_args.history, ds_args.completed,
                                           ds_args.planner_error, ds_args.cancelled))
    /\ UNCHANGED ds_args
    /\ UNCHANGED <<safetyVars, normVars, boardVars, mainVars, planner_reply, planVars, guardVars, streamVars,
                   turnVars, loadVars>>

SpecStatus == InitStatus /\ [][DetermineStatus]_vars

(***************************************************************************)
(* SpecLoad: SafetyPolicy.load over its candidate files, one pass of its   *)
(* loop per step, and the handler of main() around the call.  A file is    *)
(*   [exists, read, suffix, loaded]: read is "ok" or the exception         *)
(*   read_text raises; loaded is None when the parser raises on the        *)
(*   content and else the parsed value [is_dict, empty, rules], rules None *)
(*   when the value has no list under "rules".  An item of the list is     *)
(*   [is_dict, pattern, level], level one of [kind |-> "none"],            *)
(*   [kind |-> "str", text] and [kind |-> "int"].                          *)
(***************************************************************************)
\* re.compile in SafetyRule.__post_init__ on the pattern texts of the files:
\* the compiled pattern, None when re.error is raised
re_compile(pattern) ==
    IF pattern = <<"\\", "b", "s", "u", "d", "o", "\\", "b">> THEN Some(Patterns.sudo)
    ELSE IF pattern = <<"\\", "s", "+">> THEN Some(Patterns.blank)
    ELSE None

\* SafetyPolicy._rules_from_mapping: [raised, rules], raised the exception
\* that leaves the function, None when it returns rules
rules_from_mapping(mapping) ==
    LET RECURSIVE Build(_, _)
        Build(items, rules) ==
            IF items = <<>> THEN [raised |-> None, rules |-> rules]
            ELSE LET item == Head(items)
                 IN  IF ~item.is_dict THEN Build(Tail(items), rules)
                     ELSE IF item.level.kind = "int"
                     THEN [raised |-> Some("AttributeError"), rules |-> <<>>]
                     ELSE LET level == IF item.level.kind = "none" \/ item.level.text = <<>>
                                       THEN "low" ELSE Str(Lower(item.level.text))
                          IN  IF \/ item.pattern = None \/ item.pattern = Some(<<>>)
                                 \/ level \notin {"low", "medium", "high"}
                              THEN Build(Tail(items), rules)
                              ELSE IF re_compile(item.pattern[1]) = None
                              THEN [raised |-> Some("re.error"), rules |-> <<>>]
                              ELSE Build(Tail(items),
                                         Append(rules,
                                                SafetyRule(re_compile(item.pattern[1])[1],
                                                           level, FALSE, None, None)))
    IN  IF mapping.rules = None THEN [raised |-> None, rules |-> <<>>]
        ELSE Build(mapping.rules[1], <<>>)

\* SafetyPolicy._read_policy_file: [raised, data], data the Optional mapping
read_policy_file(file, yaml) ==
    IF file.read = "OSError" THEN [raised |-> None, data |-> None]
    ELSE IF file.read # "ok" THEN [raised |-> Some(file.read), data |-> None]
    ELSE IF file.suffix \in {".yaml", ".yml"} /\ ~yaml
    THEN [raised |-> Some("RuntimeError"), data |-> None]
    ELSE IF file.loaded = None
    THEN [raised |-> Some(IF file.suffix \in {".yaml", ".yml"}
                          THEN "YAMLError" ELSE "JSONDecodeError"),
          data |-> None]
    ELSE [raised |-> None,
          data |-> IF file.loaded[1].is_dict THEN file.loaded ELSE None]

\* the files a candidate path can name
PolicyFiles ==
    LET File(exists, read, suffix, loaded) ==
            [exists |-> exists, read |-> read, suffix |-> suffix, loaded |-> loaded]
        Value(is_dict, empty, rules) ==
            Some([is_dict |-> is_dict, empty |-> empty, rules |-> rules])
        Item(pattern, level) == [is_dict |-> TRUE, pattern |-> pattern, level |-> level]
        NoLevel == [kind |-> "none"]
        Level(text) == [kind |-> "str", text |-> text]
        Sudo == Some(<<"\\", "b", "s", "u", "d", "o", "\\", "b">>)
        Blank == Some(<<"\\", "s", "+">>)
        NotAnItem == [is_dict |-> FALSE, pattern |-> None, level |-> NoLevel]
        Contents ==
            { None,                                      \* not JSON / not YAML
              Value(FALSE, FALSE, None),                 \* a list
              Value(TRUE, TRUE, None),                   \* {}
              Value(TRUE, FALSE, None),                  \* {"rules": 5}
              Value(TRUE, FALSE, Some(<<>>)),            \* {"rules": []}
              Value(TRUE, FALSE,                         \* no item is a rule
                    Some(<<NotAnItem, Item(None, Level(<<"h", "i", "g", "h">>)),
                           Item(Sudo, Level(<<"e", "x", "t", "r", "e", "m", "e">>))>>)),
              Value(TRUE, FALSE, Some(<<Item(Sudo, [kind |-> "int"])>>)),
              Value(TRUE, FALSE, Some(<<Item(Some(<<"(">>), NoLevel)>>)),
              Value(TRUE, FALSE,
                    Some(<<Item(Sudo, Level(<<"H", "i", "g", "h">>)), NotAnItem,
                           Item(Blank, NoLevel)>>)) }
    IN  {File(FALSE, "ok", ".json", None),
         File(TRUE, "OSError", ".json", None),
         File(TRUE, "UnicodeDecodeError", ".json", None)}
        \cup {File(TRUE, "ok", suffix, loaded) :
                 suffix \in {".json", ".yaml"}, loaded \in Contents}

\* load(policy_path): the candidates are policy_path and $AGENT_SAFETY_POLICY
\* when given, and safety_policy.json
InitLoad ==
    /\ SafetyIdle /\ NormIdle /\ BoardIdle /\ MainIdle /\ PlanIdle /\ GuardIdle /\ StreamIdle
    /\ TurnIdle /\ StatusIdle
    /\ ld_candidates \in UNION {[1..n -> PolicyFiles] : n \in 1..3}
    /\ ld_candidates[Len(ld_candidates)].suffix = ".json"
    /\ ld_yaml \in BOOLEAN
    /\ ld_index = 1
    /\ ld_outcome = None
    /\ ld_main = [state |-> "loading", policy |-> None]

\* one pass of "for candidate in candidates"
TryCandidate ==
    /\ ld_outcome = None /\ ld_index <= Len(ld_candidates)
    /\ LET file == ld_candidates[ld_index]
           read == read_policy_file(file, ld_yaml)
           built == rules_from_mapping(read.data[1])
           Continue == ld_index' = ld_index + 1 /\ UNCHANGED ld_outcome
           Raise(exception) ==
               /\ ld_outcome' = Some([raised |-> Some(exception), policy |-> None])
               /\ UNCHANGED ld_index
       IN  IF ~file.exists THEN Continue
           ELSE IF read.raised # None THEN Raise(read.raised[1])
           ELSE IF read.data = None \/ read.data[1].empty THEN Continue
           ELSE IF built.raised # None THEN Raise(built.raised[1])
           ELSE IF built.rules # <<>>
           THEN /\ ld_outcome' = Some([raised |-> None, policy |-> Some(built.rules)])
                /\ UNCHANGED ld_index
           ELSE Continue
    /\ UNCHANGED <<ld_candidates, ld_yaml, ld_main>>
    /\ UNCHANGED <<safetyVars, normVars, boardVars, mainVars, planner_reply, planVars, guardVars, streamVars,
                   turnVars, statusVars>>

\* "return cls.default()" after the loop
ReturnDefault ==
    /\ ld_outcome = None /\ ld_index > Len(ld_candidates)
    /\ ld_outcome' = Some([raised |-> None, policy |-> Some(SafetyPolicy_default)])
    /\ UNCHANGED <<ld_candidates, ld_yaml, ld_index, ld_main>>
    /\ UNCHANGED <<safetyVars, normVars, boardVars, mainVars, planner_reply, planVars, guardVars, streamVars,
                   turnVars, statusVars>>

\* main() lines 639-645: the policy is taken, a RuntimeError is answered with
\* the built-in policy, any other exception leaves main()
MainLoads ==
    /\ ld_outcome # None /\ ld_main.state = "loading"
    /\ ld_main' = IF ld_outcome[1].raised = None
                  THEN [state |-> "running", policy |-> ld_outcome[1].policy]
                  ELSE IF ld_outcome[1].raised = Some("RuntimeError")
                  THEN [state |-> "running", policy |-> Some(SafetyPolicy_default)]
                  ELSE [state |-> "crashed", policy |-> None]
    /\ UNCHANGED <<ld_candidates, ld_yaml, ld_index, ld_outcome>>
    /\ UNCHANGED <<safetyVars, normVars, boardVars, mainVars, planner_reply, planVars, guardVars, streamVars,
                   turnVars, statusVars>>

SpecLoad == InitLoad /\ [][TryCandidate \/ ReturnDefault \/ MainLoads]_vars

(***************************************************************************)
(* SpecStream: execute_command and stream_process_output, step by step.    *)
(* The subprocess writes bytes to its stdout and stderr pipes and exits;   *)
(* each of the two reader threads reads its own pipe through a text        *)
(* stream (Popen with text=True) line by line into its own buffer; the     *)
(* main thread starts the threads, waits for the subprocess, joins the     *)
(* threads and returns.  st_main is the place of the main thread: "idle"   *)
(* outside execute_command, "start" after Popen, "wait" in process.wait(), *)
(* "join_out" and "join_err" in the two joins, "returned" with the result. *)
(***************************************************************************)
\* what a subprocess writes with one write call: a stream and bytes, the
\* byte invalid being one the codec of the text stream cannot decode
Output ==
    [ invalid |-> "0xff",
      writes |-> {<<"out", <<"a", "\n">>>>, <<"out", <<"b">>>>,
                  <<"out", <<"0xff", "\n">>>>, <<"err", <<"e", "\n">>>>} ]

InitStream ==
    /\ SafetyIdle /\ NormIdle /\ BoardIdle /\ MainIdle /\ PlanIdle /\ GuardIdle
    /\ TurnIdle /\ StatusIdle /\ LoadIdle
    /\ StreamIdle

\* execute_command: subprocess.Popen(command, shell=True, stdout=PIPE,
\* stderr=PIPE, text=True, bufsize=1)
Popen ==
    /\ st_main = "idle" /\ st_runs < MaxRuns
    /\ \E script \in UNION {[1..n -> Output.writes] : n \in 0..MaxWrites},
          returncode \in ExitCodes :
        st_proc' = [state |-> "running", todo |-> script, returncode |-> returncode,
                    emitted |-> [out |-> <<>>, err |-> <<>>]]
    /\ st_pipe' = [out |-> <<>>, err |-> <<>>]
    /\ st_thread' = [s \in {"out", "err"} |->
                        [state |-> "none", pending |-> <<>>, buffer |-> <<>>]]
    /\ st_result' = None
    /\ st_main' = "start"
    /\ UNCHANGED <<safetyVars, normVars, boardVars, mainVars, planner_reply, planVars, guardVars,
                   turnVars, statusVars, loadVars, st_runs>>

\* the subprocess makes its next write, or exits after the last one, which
\* closes its ends of the two pipes
Subprocess ==
    /\ st_proc.state = "running"
    /\ \/ /\ st_proc.todo # <<>>
          /\ LET s == st_proc.todo[1][1]
                 bytes == st_proc.todo[1][2]
             IN  /\ st_pipe' = [st_pipe EXCEPT ![s] = @ \o bytes]
                 /\ st_proc' = [st_proc EXCEPT !.todo = Tail(@), !.emitted[s] = @ \o bytes]
       \/ /\ st_proc.todo = <<>>
          /\ st_proc' = [st_proc EXCEPT !.state = "exited"]
          /\ UNCHANGED st_pipe
    /\ UNCHANGED <<safetyVars, normVars, boardVars, mainVars, planner_reply, planVars, guardVars,
                   turnVars, statusVars, loadVars, st_main, st_thread, st_result, st_runs>>

\* reader(stream, buffer, style), one step of "for line in
\* iter(stream.readline, '')": a line of the decoded text goes to the
\* buffer; or the text stream reads the bytes the pipe holds and decodes
\* them, which raises UnicodeDecodeError in the thread on an invalid byte;
\* or, at the end of the pipe, the rest goes to the buffer as the last line
\* and readline then returns '', after which the stream is closed
reader(s) ==
    /\ st_thread[s].state = "running"
    /\ LET pending == st_thread[s].pending
           ends == {i \in 1..Len(pending) : pending[i] = "\n"}
       IN  \/ /\ ends # {}
              /\ LET k == CHOOSE i \in ends : \A j \in ends : i <= j
                 IN  st_thread' = [st_thread EXCEPT
                        ![s].buffer = Append(@, SubSeq(pending, 1, k)),
                        ![s].pending = SubSeq(pending, k + 1, Len(pending))]
              /\ UNCHANGED st_pipe
           \/ /\ ends = {} /\ st_pipe[s] # <<>>
              /\ st_thread' =
                    IF \E i \in 1..Len(st_pipe[s]) : st_pipe[s][i] = Output.invalid
                    THEN [st_thread EXCEPT ![s].state = "raised"]
                    ELSE [st_thread EXCEPT ![s].pending = @ \o st_pipe[s]]
              /\ st_pipe' = [st_pipe EXCEPT ![s] = <<>>]
           \/ /\ ends = {} /\ st_pipe[s] = <<>> /\ st_proc.state = "exited"
              /\ st_thread' =
                    IF pending # <<>>
                    THEN [st_thread EXCEPT ![s].buffer = Append(@, pending),
                                           ![s].pending = <<>>]
                    ELSE [st_thread EXCEPT ![s].state = "done"]
              /\ UNCHANGED st_pipe
    /\ UNCHANGED <<safetyVars, normVars, boardVars, mainVars, planner_reply, planVars, guardVars,
                   turnVars, statusVars, loadVars, st_main, st_proc, st_result, st_runs>>

\* stream_process_output that returns once process.wait() has returned,
\* without joining the reader threads
stream_process_outputNoJoin ==
    /\ \/ /\ st_main = "start"
          /\ st_thread' = [s \in {"out", "err"} |-> [st_thread[s] EXCEPT !.state = "running"]]
          /\ st_main' = "wait"
          /\ UNCHANGED st_result
       \/ /\ st_main = "wait" /\ st_proc.state = "exited"
          /\ st_main' = "returned"
          /\ st_result' = Some([stdout |-> st_thread["out"].buffer,
                                stderr |-> st_thread["err"].buffer,
                                returncode |-> st_proc.returncode])
          /\ UNCHANGED st_thread
    /\ UNCHANGED <<safetyVars, normVars, boardVars, mainVars, planner_reply, planVars, guardVars,
                   turnVars, statusVars, loadVars, st_proc, st_pipe, st_runs>>

\* stream_process_output, the main thread: both threads are started;
\* process.wait() returns; thread.join() returns for the stdout reader, then
\* for the stderr reader, and the buffers and the return code are returned
stream_process_output ==
    /\ \/ /\ st_main = "start"
          /\ st_thread' = [s \in {"out", "err"} |-> [st_thread[s] EXCEPT !.state = "running"]]
          /\ st_main' = "wait"
          /\ UNCHANGED st_result
       \/ /\ st_main = "wait" /\ st_proc.state = "exited"
          /\ st_main' = "join_out"
          /\ UNCHANGED <<st_thread, st_result>>
       \/ /\ st_main = "join_out" /\ st_thread["out"].state \in {"done", "raised"}
          /\ st_main' = "join_err"
          /\ UNCHANGED <<st_thread, st_result>>
       \/ /\ st_main = "join_err" /\ st_thread["err"].state \in {"done", "raised"}
          /\ st_main' = "returned"
          /\ st_result' = Some([stdout |-> st_thread["out"].buffer,
                                stderr |-> st_thread["err"].buffer,
                                returncode |-> st_proc.returncode])
          /\ UNCHANGED st_thread
    /\ UNCHANGED <<safetyVars, normVars, boardVars, mainVars, planner_reply, planVars, guardVars,
                   turnVars, statusVars, loadVars, st_proc, st_pipe, st_runs>>

\* main() after execute_command returned: the outcome is recorded on the
\* scoreboard, in the goal history and in the plan, and the loop goes on
MainRecords ==
    /\ st_main = "returned"
    /\ st_runs' = st_runs + 1
    /\ st_main' = "idle"
    /\ UNCHANGED <<safetyVars, normVars, boardVars, mainVars, planner_reply, planVars, guardVars,
                   turnVars, statusVars, loadVars, st_proc, st_pipe, st_thread, st_result>>

SpecStream ==
    InitStream /\ [][Popen \/ Subprocess \/ (\E s \in {"out", "err"} : reader(s))
                        \/ stream_process_output \/ MainRecords]_vars

(***************************************************************************)
(* Properties of SafetyPolicy.evaluate.                                    *)
(***************************************************************************)
\* the text the rules are matched against
Trimmed == Strip(sp_cmd)

\* rule i of the policy matches the command under evaluation
RuleHits(i) == SafetyRule_matches(sp_rules[i], Trimmed)

HittingRules == {i \in 1..Len(sp_rules) : RuleHits(i)}

\* the first rule in declaration order that matches
FirstHit == CHOOSE i \in HittingRules : \A j \in HittingRules : i <= j

Decided == sp_decision # None

\* rules that match the command text as given, before any trimming
RawHittingRules == {i \in 1..Len(sp_rules) : SafetyRule_matches(sp_rules[i], sp_cmd)}

FirstRawHit == CHOOSE i \in RawHittingRules : \A j \in RawHittingRules : i <= j

\* C2 as stated: for every non-empty command the decision is the one computed
\* by the first rule in declaration order whose pattern matches the command.
C2_AsStated ==
    (Decided /\ sp_cmd # <<>> /\ RawHittingRules # {})
        => sp_decision[1] = SafetyRule_evaluate(sp_rules[FirstRawHit], sp_cmd)

\* C2 (amended): for a command that is not empty once trimmed, the decision is
\* the one the first rule in declaration order that matches the trimmed command
\* computes on it; no later matching rule changes level, require_confirmation
\* or notes, even one of a higher level.
C2_FirstMatchWins ==
    (Decided /\ Trimmed # <<>> /\ HittingRules # {})
        => sp_decision[1] = SafetyRule_evaluate(sp_rules[FirstHit], Trimmed)

\* two rules match, and the later one carries a higher level than the first
C2_Witness ==
    /\ Decided
    /\ Trimmed # <<>>
    /\ Cardinality(HittingRules) >= 2
    /\ sp_rules[FirstHit].level = "medium"
    /\ \E j \in HittingRules : sp_rules[j].level = "high"
    /\ sp_decision[1].level = "medium"

\* the text holds r m, blanks, - r f, blanks, / in any letter case: the match
\* of the recursive-root-delete pattern, spelled out position by position
ContainsRootDelete(s) ==
    \E p \in 1..Len(s) : \E a \in 1..Len(s) : \E b \in 1..Len(s) :
        /\ p + 1 + a + 3 + b + 1 <= Len(s)
        /\ s[p] \in {"r", "R"} /\ s[p + 1] \in {"m", "M"}
        /\ \A q \in (p + 2)..(p + 1 + a) : s[q] \in {" ", "\t"}
        /\ s[p + 2 + a] = "-"
        /\ s[p + 3 + a] \in {"r", "R"} /\ s[p + 4 + a] \in {"f", "F"}
        /\ \A q \in (p + 5 + a)..(p + 4 + a + b) : s[q] \in {" ", "\t"}
        /\ s[p + 5 + a + b] = "/"

\* C3: under the built-in policy every command that contains a match of
\* rm\s+-rf\s+/ (any case, any amount of blanks, anywhere in the text) is
\* decided high with require_confirmation.
C3_RootDeleteIsHigh ==
    (Decided /\ ContainsRootDelete(sp_cmd))
        => sp_decision[1].level = "high" /\ sp_decision[1].require_confirmation

\* an upper-case variant with a double blank, behind a sudo prefix
C3_Witness ==
    /\ Decided
    /\ ContainsRootDelete(sp_cmd)
    /\ Contains(sp_cmd, <<"R", "M">>)
    /\ Contains(sp_cmd, <<" ", " ">>)
    /\ Contains(sp_cmd, Words.sudo)
    /\ sp_decision[1].level = "high"

\* C4: a command that is empty once trimmed, and a command that matches no
\* rule of the policy, is decided low, without confirmation and without notes.
C4_LowByDefault ==
    (Decided /\ (Trimmed = <<>> \/ RawHittingRules = {}))
        => sp_decision[1] = [level |-> "low", require_confirmation |-> FALSE, notes |-> None]

\* a blank command under a policy holding a rule that matches blanks
C4_Witness ==
    /\ Decided
    /\ sp_cmd # <<>> /\ Trimmed = <<>>
    /\ RawHittingRules # {}
    /\ sp_decision[1].level = "low"

\* the rule declares allowed flags ("if self.allowed_flags")
DeclaresFlags(rule) ==
    rule.allowed_flags # None /\ Len(rule.allowed_flags[1]) > 0

\* the text contains none of the rule's allowed flags
FlagsAbsent(rule, text) ==
    \A f \in Range(rule.allowed_flags[1]) : ~Contains(text, f)

HasDescription(rule) ==
    rule.description # None /\ rule.description[1] # ""

\* the notes of decision d hold the missing-flags advisory of the rule
AdvisoryPresent(d, rule) ==
    /\ d.notes # None
    /\ \/ d.notes[1] = FlagAdvisory(rule)
       \/ /\ HasDescription(rule)
          /\ d.notes[1] = FlagAdvisory(rule) \o "\n" \o rule.description[1]

\* C5: for a winning rule that declares allowed flags, require_confirmation is
\* the rule's static flag or-ed with "the command contains none of the flags",
\* and the advisory note is present exactly in that case; without allowed flags
\* require_confirmation is the static flag; notes is None exactly when neither
\* the advisory nor a description applies.
C5_FlagsForceConfirmation ==
    (Decided /\ Trimmed # <<>> /\ HittingRules # {}) =>
        LET rule == sp_rules[FirstHit]
            text == Trimmed
            d == sp_decision[1]
            declared == DeclaresFlags(rule)
            missing == declared /\ FlagsAbsent(rule, text)
        IN  /\ declared =>
                d.require_confirmation = (rule.require_confirmation \/ missing)
            /\ ~declared =>
                d.require_confirmation = rule.require_confirmation
            /\ AdvisoryPresent(d, rule) <=> missing
            /\ (d.notes = None) <=> (~missing /\ ~HasDescription(rule))

\* a rule with static require_confirmation = FALSE is forced to TRUE
C5_Witness ==
    /\ Decided /\ Trimmed # <<>> /\ HittingRules # {}
    /\ LET rule == sp_rules[FirstHit]
       IN  /\ DeclaresFlags(rule) /\ FlagsAbsent(rule, Trimmed)
           /\ ~rule.require_confirmation
           /\ sp_decision[1].require_confirmation
           /\ AdvisoryPresent(sp_decision[1], rule)

\* index of the rule of the policy with the given pattern
RuleIndex(pattern) == CHOOSE i \in 1..Len(sp_rules) : sp_rules[i].pattern = pattern

\* w stands in s as a token of its own, delimited by blanks or the text's ends
HasToken(s, w) ==
    \E p \in 1..(Len(s) - Len(w) + 1) :
        /\ SubSeq(s, p, p + Len(w) - 1) = w
        /\ (p = 1 \/ IsSpace(s[p - 1]))
        /\ (p + Len(w) - 1 = Len(s) \/ IsSpace(s[p + Len(w)]))

\* the command carries the non-interactive flag: -y, or its long form --yes
HasYesFlag(s) == HasToken(s, Words.y) \/ HasToken(s, Words.yes)

\* the install rule matches and no rule declared before it does
InstallRuleDecides ==
    /\ RuleHits(RuleIndex(Patterns.aptinstall))
    /\ \A j \in 1..(RuleIndex(Patterns.aptinstall) - 1) : ~RuleHits(j)

AptMissingFlagNotes ==
    "Expected one of the following flags: -y\nApt installs should include -y for non-interactive mode."

\* C6: under the built-in policy an apt/apt-get install command that matches
\* no earlier rule is decided medium; missing the flag -y it requires
\* confirmation and carries the note naming the flag, with the flag present it
\* does not require confirmation.
C6_InstallNeedsYesFlag ==
    (Decided /\ InstallRuleDecides) =>
        /\ sp_decision[1].level = "medium"
        /\ HasYesFlag(sp_cmd) => ~sp_decision[1].require_confirmation
        /\ ~HasYesFlag(sp_cmd) =>
              /\ sp_decision[1].require_confirmation
              /\ sp_decision[1].notes = Some(AptMissingFlagNotes)

\* both the sudo rule and the install rule match the command
SudoAndInstallHit == RuleHits(RuleIndex(Patterns.sudo)) /\ RuleHits(RuleIndex(Patterns.aptinstall))

SudoRuleDecision == [level |-> "medium", require_confirmation |-> FALSE, notes |-> None]

\* C7 as stated: a command that matches both the sudo rule and the install rule
\* is decided by the sudo rule alone: medium, no confirmation, no note.
C7_AsStated ==
    (Decided /\ SudoAndInstallHit) => sp_decision[1] = SudoRuleDecision

\* no high rule of the policy matches the command
NoHighRuleHits == \A j \in 1..Len(sp_rules) : sp_rules[j].level = "high" => ~RuleHits(j)

\* C7 (amended): a command that matches the sudo rule and the install rule, and
\* none of the high rules (all declared before the sudo rule), is decided by the
\* sudo rule alone: medium, no confirmation, no missing-flag note.
C7_SudoBeforeInstall ==
    (Decided /\ SudoAndInstallHit /\ NoHighRuleHits) => sp_decision[1] = SudoRuleDecision

\* sudo apt-get install without -y, decided by the sudo rule
C7_Witness ==
    /\ Decided /\ SudoAndInstallHit
    /\ ~Contains(sp_cmd, Words.y)
    /\ sp_decision[1] = SudoRuleDecision
\* normalising a key again gives the same key
NormalizeIdempotent == (nm_key # None /\ nm_key2 # None) => nm_key2 = nm_key

\* more blanks between two tokens give the same key
NormalizeBlankInsensitive == (nm_key # None /\ nm_variant # None) => nm_variant = nm_key

\* C10: normalisation is idempotent, and two commands that differ only in the
\* amount of blanks between tokens normalise to the same key.
C10_NormalizeIdempotent == NormalizeIdempotent /\ NormalizeBlankInsensitive
\* C8: after n success records and m failure records for a normalized key, in
\* any interleaving with records for other keys, the stats of that key are
\* successes = n, failures = m and score = n - m.
C8_TallyMatchesRecords ==
    /\ DOMAIN scores = DOMAIN sb_tally
    /\ \A key \in DOMAIN sb_tally :
          /\ scores[key].successes = sb_tally[key].successes
          /\ scores[key].failures = sb_tally[key].failures
          /\ CommandStats_to_dict(scores[key]).score
                = sb_tally[key].successes - sb_tally[key].failures

\* two keys hold records, one of them both a success and a failure
C8_Witness ==
    /\ Cardinality(DOMAIN sb_tally) >= 2
    /\ \E key \in DOMAIN sb_tally :
          /\ sb_tally[key].successes >= 1 /\ sb_tally[key].failures >= 1
          /\ scores[key] = [successes |-> sb_tally[key].successes,
                            failures |-> sb_tally[key].failures]

\* C9: analyze never changes the scoreboard (no entry created, no count
\* changed), and the stats objects analyze and record return are copies:
\* mutating one leaves the stored stats of every key unchanged.
C9_AnalyzeReadOnlyCopies ==
    [][sb_last'.op \in {"analyze", "mutate"} => scores' = scores]_vars

\* a returned snapshot of a stored key was mutated and now differs from it
C9_Witness ==
    /\ sb_last.op = "mutate"
    /\ sb_last.key \in DOMAIN scores
    /\ sb_snapshot # None
    /\ sb_snapshot[1].stats # scores[sb_last.key]

(***************************************************************************)
(* Properties of the confirmation gate of the goal loop.                   *)
(***************************************************************************)
\* the decision of the command under review is high or forces confirmation
GateApplies ==
    decision # None /\ (decision[1].level = "high" \/ decision[1].require_confirmation)

\* the operator's answer reads proceed once trimmed and lower-cased
AnsweredProceed ==
    response # None /\ ~response[1].interrupt
        /\ Lower(Strip(response[1].text)) = Words.proceed

\* C1 as stated: a command whose decision is high or forces confirmation is
\* executing only when the operator answered the confirmation prompt with the
\* token proceed.
C1_AsStated ==
    (pc = "executing" /\ GateApplies) => response = Some(Line(Words.proceed))

\* C1, amended: unless safety checks are disabled, a command whose decision is
\* high or forces confirmation is executing only when the operator answered the
\* confirmation prompt with proceed, compared after trimming and lower-casing;
\* after any other answer (empty input and interrupts included) the goal has
\* ended cancelled and nothing is executing.
C1_GateUnlessDisabled ==
    /\ (pc = "executing" /\ GateApplies /\ ~safety_disabled) => AnsweredProceed
    /\ (response # None /\ ~AnsweredProceed) => (pc = "idle" /\ user_cancelled)

\* a gated command is executing after the operator typed proceed in upper case
C1_Witness ==
    /\ pc = "executing" /\ ~safety_disabled /\ GateApplies
    /\ decision[1].level = "high"
    /\ response = Some(Line(Words.PROCEED))

(***************************************************************************)
(* Properties of PlanState (SpecPlan).                                     *)
(***************************************************************************)
\* the last mark_running / record_result call made, and the plan before it
Called == ps_log # <<>>
LastCall == ps_log[Len(ps_log)]
PlanBefore == ps_before[1]

\* a step of the plan has this id
HasId(plan, step_id) == \E i \in 1..Len(plan.steps) : plan.steps[i].id = step_id

\* the step with this id: the first one in plan order when several share it
Named(plan, step_id) ==
    CHOOSE i \in 1..Len(plan.steps) :
        /\ plan.steps[i].id = step_id
        /\ \A j \in 1..(i - 1) : plan.steps[j].id # step_id

\* every step but the one at position i is as it was before the call
OthersUntouched(i) ==
    /\ ps_plan.summary = PlanBefore.summary
    /\ Len(ps_plan.steps) = Len(PlanBefore.steps)
    /\ \A j \in 1..Len(ps_plan.steps) : j # i => ps_plan.steps[j] = PlanBefore.steps[j]

\* C11: a step that has status completed keeps it under every mark_running
\* and every record_result call, whatever the id and the success value.
C11_CompletedForever ==
    Called =>
        \A i \in 1..Len(PlanBefore.steps) :
            PlanBefore.steps[i].status = "completed" => ps_plan.steps[i].status = "completed"

\* C12: mark_running(id) sets the step with that id to in_progress when it
\* exists and is not completed and changes nothing otherwise; all other
\* steps, the summary and every history-index list stay as they were.
C12_MarkRunningFrame ==
    (Called /\ LastCall.op = "mark_running") =>
        IF HasId(PlanBefore, LastCall.id)
           /\ PlanBefore.steps[Named(PlanBefore, LastCall.id)].status # "completed"
        THEN LET i == Named(PlanBefore, LastCall.id)
             IN  /\ OthersUntouched(i)
                 /\ ps_plan.steps[i] = [PlanBefore.steps[i] EXCEPT !.status = "in_progress"]
        ELSE ps_plan = PlanBefore

\* a failed step is driven again: mark_running puts it back to in_progress
C12_Witness ==
    /\ Called /\ LastCall.op = "mark_running"
    /\ HasId(PlanBefore, LastCall.id)
    /\ PlanBefore.steps[Named(PlanBefore, LastCall.id)].status = "failed"
    /\ PlanBefore.steps[Named(PlanBefore, LastCall.id)].history_indices # <<>>
    /\ ps_plan.steps[Named(PlanBefore, LastCall.id)].status = "in_progress"

\* C13: record_result(id, success, historyIndex) on an existing id appends
\* the index, when one is given, to the end of that step's history list and
\* sets its status to completed on success and to failed otherwise; on an
\* unknown id nothing changes; no other step is modified.
C13_RecordResultFrame ==
    (Called /\ LastCall.op = "record_result") =>
        IF HasId(PlanBefore, LastCall.id)
        THEN LET i == Named(PlanBefore, LastCall.id)
                 was == PlanBefore.steps[i]
                 now == ps_plan.steps[i]
             IN  /\ OthersUntouched(i)
                 /\ now.status = (IF LastCall.success THEN "completed" ELSE "failed")
                 /\ now.history_indices =
                        was.history_indices \o
                        (IF LastCall.history_index = None THEN <<>>
                         ELSE <<LastCall.history_index[1]>>)
                 /\ now.id = was.id /\ now.title = was.title
                 /\ now.command = was.command /\ now.description = was.description
        ELSE ps_plan = PlanBefore

\* a second result is recorded on a step that already has one
C13_Witness ==
    /\ Called /\ LastCall.op = "record_result" /\ ~LastCall.success
    /\ HasId(PlanBefore, LastCall.id)
    /\ PlanBefore.steps[Named(PlanBefore, LastCall.id)].history_indices = <<0>>
    /\ ps_plan.steps[Named(PlanBefore, LastCall.id)].history_indices = <<0, 1>>
    /\ ps_plan.steps[Named(PlanBefore, LastCall.id)].status = "failed"

\* C14: current_step() returns None exactly when every step is completed,
\* and otherwise the first step in plan order that is not completed, a
\* failed step included.
C14_CurrentStepFirstOpen ==
    ps_current # None =>
        LET returned == ps_current[1]
        IN  /\ returned = None <=>
                    \A i \in 1..Len(ps_plan.steps) : ps_plan.steps[i].status = "completed"
            /\ returned # None =>
                    /\ returned[1] \in 1..Len(ps_plan.steps)
                    /\ ps_plan.steps[returned[1]].status # "completed"
                    /\ \A j \in 1..(returned[1] - 1) : ps_plan.steps[j].status = "completed"

\* current_step() passes a completed first step and returns the failed second
C14_Witness ==
    /\ ps_current = Some(Some(2))
    /\ Called /\ LastCall.op = "record_result" /\ ~LastCall.success
    /\ ps_plan.steps[1].status = "completed"
    /\ ps_plan.steps[2].status = "failed"

\* scenario E: the plan [s1 pending, s2 pending] and its three calls
ScenarioPlan ==
    PlanState(None, <<PlanStepState("s1", None, None, None, "pending"),
                      PlanStepState("s2", None, None, None, "pending")>>)
ScenarioCalls ==
    <<MarkCall("s1"), RecordCall("s1", TRUE, Some(0)), RecordCall("s2", FALSE, Some(1))>>

\* current_step() was asked after the first n calls of the scenario
AskedAfter(n) ==
    /\ ps_start = Some(ScenarioPlan)
    /\ ps_log = SubSeq(ScenarioCalls, 1, n)
    /\ ps_current # None

\* the id of the step current_step() returned, None when it returned None
ReturnedId ==
    IF ps_current[1] = None THEN None ELSE Some(ps_plan.steps[ps_current[1][1]].id)

\* C15 as stated: in scenario E current_step() is s1 after mark_running(s1),
\* s2 after record_result(s1, true, 0) and None after record_result(s2, false, 1).
C15_AsStated ==
    /\ AskedAfter(1) => ReturnedId = Some("s1")
    /\ AskedAfter(2) => ReturnedId = Some("s2")
    /\ AskedAfter(3) => ReturnedId = None

\* C15 (amended): in scenario E current_step() is s1 after mark_running(s1),
\* s2 after record_result(s1, true, 0), and still s2, now with status
\* failed, after record_result(s2, false, 1).
C15_ScenarioE ==
    /\ AskedAfter(1) => ReturnedId = Some("s1")
    /\ AskedAfter(2) => ReturnedId = Some("s2")
    /\ AskedAfter(3) =>
            /\ ReturnedId = Some("s2")
            /\ ps_plan.steps[ps_current[1][1]].status = "failed"
            /\ ps_plan.steps[ps_current[1][1]].history_indices = <<1>>

\* the whole scenario was played and current_step() asked at its end
C15_Witness == AskedAfter(3) /\ ps_plan.steps[1].status = "completed"

(***************************************************************************)
(* Properties of the active plan in the goal loop (Spec).                  *)
(***************************************************************************)
\* C16: the step ids of every active plan are pairwise distinct, so that
\* mark_running and record_result, called with the id of the step that
\* current_step() returned, act on that very step.
C16_StepIdsDistinct ==
    active_plan # None =>
        /\ \A i, j \in 1..Len(active_plan[1].steps) :
                active_plan[1].steps[i].id = active_plan[1].steps[j].id => i = j
        /\ active_step # None =>
                PlanState_get_step(active_plan[1], active_plan[1].steps[active_step[1]].id)
                    = active_step

\* C17: every step of the active plan has one of the four statuses, whatever
\* status values the plan payload carried.
C17_StatusInEnum ==
    active_plan # None =>
        \A i \in 1..Len(active_plan[1].steps) :
            active_plan[1].steps[i].status \in {"pending", "in_progress", "completed", "failed"}

\* a step of main() that handled a plan-mode reply, and the payload it carried
PlanReplyHandled ==
    /\ pc = "suggest" /\ pc' = "suggest"
    /\ planner_reply' # None /\ planner_reply'[1].mode = "plan"
PayloadHandled == planner_reply'[1].plan[1]

\* C18: a plan with at least one step that arrives in the middle of a goal
\* becomes the active plan as it is: its steps in the payload's order, none
\* with a history index, nothing of the plan before it; goal history and
\* scoreboard stay as they were and the loop asks for the next suggestion.
C18_PlanReplaced ==
    [][(PlanReplyHandled /\ PayloadHandled.steps # <<>>) =>
            /\ active_plan' # None
            /\ active_plan'[1].summary = PayloadHandled.summary
            /\ Len(active_plan'[1].steps) = Len(PayloadHandled.steps)
            /\ \A i \in 1..Len(PayloadHandled.steps) :
                    /\ active_plan'[1].steps[i].id = PayloadHandled.steps[i].id
                    /\ active_plan'[1].steps[i].status
                            = StatusClean(PayloadHandled.steps[i].status)
                    /\ active_plan'[1].steps[i].history_indices = <<>>
            /\ goal_history' = goal_history
            /\ scores' = scores
            /\ pc' = "suggest"]_vars

\* a plan arrived after a command of the plan before it was executed
C18_Witness ==
    /\ pc = "suggest" /\ planner_reply # None /\ planner_reply[1].mode = "plan"
    /\ planner_reply[1].plan[1].steps # <<>>
    /\ goal_history # <<>>
    /\ goal_history[Len(goal_history)].plan_step_id = Some("s1")
    /\ active_plan # None
    /\ active_plan[1].steps[1].id = "s1"
    /\ active_plan[1].steps[1].history_indices = <<>>

\* C19: a plan-mode reply without steps never becomes the active plan: the
\* active plan, or its absence, stays as it was and the loop goes on; an
\* active plan always has at least one step.
C19_EmptyPlanDiscarded ==
    /\ [](active_plan # None => Len(active_plan[1].steps) >= 1)
    /\ [][(PlanReplyHandled /\ PayloadHandled.steps = <<>>) =>
            (active_plan' = active_plan /\ pc' = "suggest")]_vars

\* a reply without steps arrived while a plan with a recorded result was active
C19_Witness ==
    /\ pc = "suggest" /\ planner_reply # None /\ planner_reply[1].mode = "plan"
    /\ planner_reply[1].plan[1].steps = <<>>
    /\ active_plan # None
    /\ active_plan[1].steps[1].history_indices # <<>>

(***************************************************************************)
(* Properties of is_repeated_failure (SpecGuard).                          *)
(***************************************************************************)
\* a text with every run of whitespace made one blank, and trimmed
WsNormal(text) == Strip(CollapseBlanks(text))

\* the two most recent turns
LastTurn == rf_history[Len(rf_history)]
PrevTurn == rf_history[Len(rf_history) - 1]

\* both failed, and their executed commands and the candidate are the same
\* text once whitespace is normalized
SameFailedCommand ==
    /\ LastTurn.exit_code # 0 /\ PrevTurn.exit_code # 0
    /\ WsNormal(LastTurn.executed_command) = WsNormal(PrevTurn.executed_command)
    /\ WsNormal(LastTurn.executed_command) = WsNormal(rf_candidate[1])

\* the history is too short, or one of its two most recent turns succeeded
NoTwoFailures ==
    \/ Len(rf_history) < 2
    \/ LastTurn.exit_code = 0
    \/ PrevTurn.exit_code = 0

\* C20 as stated: false when the history has fewer than two turns or one of
\* the two most recent exited with 0; for a non-empty candidate and at least
\* two turns, true exactly when both most recent turns failed and their
\* whitespace-normalized executed commands equal each other and the
\* whitespace-normalized candidate; older turns play no part.
C20_AsStated ==
    rf_result # None =>
        /\ NoTwoFailures => rf_result[1] = FALSE
        /\ (rf_candidate # None /\ rf_candidate[1] # <<>> /\ Len(rf_history) >= 2) =>
                (rf_result[1] <=> SameFailedCommand)

\* C20 (amended): as stated, for a candidate that is not empty after
\* whitespace normalization; a candidate that is absent, empty or blank
\* gives false.
C20_RepeatedFailure ==
    rf_result # None =>
        /\ NoTwoFailures => rf_result[1] = FALSE
        /\ (rf_candidate # None /\ WsNormal(rf_candidate[1]) # <<>> /\ Len(rf_history) >= 2) =>
                (rf_result[1] <=> SameFailedCommand)
        /\ (rf_candidate = None \/ WsNormal(rf_candidate[1]) = <<>>) => rf_result[1] = FALSE

\* the guard fires on a three-turn history whose oldest turn succeeded with
\* another command, the texts differing in their blanks only
C20_Witness ==
    /\ rf_result = Some(TRUE)
    /\ Len(rf_history) = 3
    /\ rf_history[1].exit_code = 0
    /\ rf_history[1].executed_command # LastTurn.executed_command
    /\ LastTurn.executed_command # PrevTurn.executed_command
    /\ rf_candidate[1] # LastTurn.executed_command
    /\ rf_candidate[1] # PrevTurn.executed_command

(***************************************************************************)
(* Properties of the goal loop (Spec): the guard, the planner's replies,   *)
(* cancellation, failed commands and the scoreboard across goals.          *)
(***************************************************************************)
\* the command of this iteration is under review or running
InReview == pc \in {"command_prompt", "action_prompt", "confirm_prompt", "executing"}

\* the two most recent executions of the goal failed, and the text they
\* executed is, whitespace normalized, the given text
FailedTwice(text) ==
    /\ Len(goal_history) >= 2
    /\ goal_history[Len(goal_history)].returncode # 0
    /\ goal_history[Len(goal_history) - 1].returncode # 0
    /\ WsNormal(text) # <<>>
    /\ WsNormal(goal_history[Len(goal_history)].executed_command) = WsNormal(text)
    /\ WsNormal(goal_history[Len(goal_history) - 1].executed_command) = WsNormal(text)

\* C21: a command that the two most recent executions of the goal both
\* failed with is never the planner's suggestion under review or running.
C21_NoRepeatedFailureAccepted ==
    InReview => ~FailedTwice(command_suggestion)

\* the most recent execution of the goal failed
LastFailed == goal_history # <<>> /\ goal_history[Len(goal_history)].returncode # 0

\* a step of main() that took DONE as the end of the goal, and one that
\* turned DONE down
DoneAccepted ==
    /\ pc = "suggest" /\ pc' = "idle"
    /\ planner_completed' /\ conversation_messages' = conversation_messages
DoneRejected ==
    /\ pc = "suggest"
    /\ planner_reply' # None /\ planner_reply'[1].mode = "command"

\* what a turned-down DONE leaves behind: the goal goes on, not completed,
\* nothing was executed, and the planner is asked again
GoalGoesOn ==
    /\ pc' = "suggest" /\ ~planner_completed' /\ status' = status
    /\ goal_history' = goal_history /\ scores' = scores /\ run_count' = run_count
    /\ active_plan' = active_plan

\* C23 as stated: DONE ends the goal as completed only if the most recent
\* execution of the goal has exit code 0; after a failed one the goal goes on.
C23_AsStated ==
    [][/\ DoneAccepted =>
            /\ goal_history # <<>> /\ ~LastFailed
            /\ status' = Some("completed")
       /\ DoneRejected => (LastFailed /\ GoalGoesOn)]_vars

\* C23 (amended): DONE, in any letter case, ends the goal as completed only
\* if the goal has no execution yet or its most recent execution has exit
\* code 0; when the most recent execution failed the goal is not ended and
\* not marked completed, nothing is executed and the planner is asked again.
C23_DoneNeedsSuccess ==
    [][/\ DoneAccepted =>
            /\ ~LastFailed
            /\ goal_history # <<>> => status' = Some("completed")
            /\ status' \in {None, Some("completed")}
       /\ DoneRejected => (LastFailed /\ GoalGoesOn)]_vars

\* a lower-case done was turned down after a failed command
C23_Witness ==
    /\ pc = "suggest" /\ LastFailed
    /\ planner_reply # None /\ planner_reply[1].mode = "command"
    /\ planner_reply[1].command = Some(CommandTexts.done)

\* a step of main() that handled a chat-mode reply
ChatHandled == pc = "suggest" /\ conversation_messages' # conversation_messages

\* C24: a chat-mode reply ends the goal with terminal status completed,
\* whatever the goal history is; the message is recorded and no command is
\* executed after the reply.
C24_ChatCompletes ==
    [][ChatHandled =>
            /\ pc' = "idle" /\ status' = Some("completed")
            /\ Len(conversation_messages') = Len(conversation_messages) + 1
            /\ goal_history' = goal_history /\ run_count' = run_count]_vars

\* C26: a planner error (planner.suggest raised, or a command-mode reply with
\* an empty command) ends the goal at once with terminal status
\* planner_error: while the error of the goal is set the loop is outside the
\* goal (nothing is reviewed, executed or requested), whatever the goal
\* history, the active plan and the cancellation flag are.
C26_PlannerErrorEndsGoal ==
    planner_error_msg # None =>
        /\ pc = "idle"
        /\ status = Some("planner_error")
        /\ ~planner_completed

\* an empty command ended a goal that had a failed execution and a plan
C26_Witness ==
    /\ planner_error_msg = Some("empty command")
    /\ goal_history # <<>> /\ goal_history[Len(goal_history)].returncode # 0
    /\ active_plan # None
    /\ status = Some("planner_error")

\* the operator is at one of the prompts of the review of a command
AtPrompt == pc \in {"command_prompt", "action_prompt", "confirm_prompt"}

\* a step in which the operator cancels the command under review
Cancels == AtPrompt /\ user_cancelled'

\* C27: when the operator cancels a command (a skip at the review, or any
\* answer other than proceed at the confirmation prompt) the command is not
\* executed, the goal history, the scoreboard and the active plan (every
\* step's status and history indices) are what they were, the inner loop is
\* left without another planner request, and the terminal status is
\* cancelled when the goal history is empty; the review before the
\* cancellation changed none of them either.
C27_CancelFrame ==
    [][/\ Cancels =>
            /\ pc' = "idle"
            /\ goal_history' = goal_history /\ run_count' = run_count
            /\ scores' = scores /\ active_plan' = active_plan
            /\ goal_history = <<>> => status' = Some("cancelled")
       /\ (AtPrompt /\ pc' # "executing") =>
            /\ goal_history' = goal_history /\ run_count' = run_count
            /\ scores' = scores /\ active_plan' = active_plan
       /\ (AtPrompt /\ ~user_cancelled') => pc' # "idle"]_vars

\* "y" at the confirmation prompt cancelled the first command of a goal that
\* has a plan, and the scoreboard holds the executions of an earlier goal
C27_Witness ==
    /\ pc = "idle" /\ user_cancelled
    /\ response = Some(Line(<<"y">>))
    /\ goal_history = <<>> /\ status = Some("cancelled")
    /\ active_plan # None /\ DOMAIN scores # {}

\* a step that ends the goal
GoalEnds == pc # "idle" /\ pc' = "idle"

\* C28: a command that exits with a non-zero code never ends the goal loop
\* by itself: after every execution, failed or not, the loop asks the planner
\* for the next suggestion with no terminal status set, and the goal ends
\* only on a planner error, a chat reply, an accepted DONE or a cancellation
\* by the operator.
C28_FailureGoesOn ==
    [][/\ (pc = "executing" /\ pc' # "executing") =>
            /\ pc' = "suggest" /\ status' = status
            /\ Len(goal_history') = Len(goal_history) + 1
            /\ ~planner_completed' /\ ~user_cancelled' /\ planner_error_msg' = None
       /\ GoalEnds =>
            \/ pc = "suggest" /\ planner_error_msg' # None
            \/ ChatHandled /\ planner_completed'
            \/ DoneAccepted
            \/ Cancels]_vars

\* the planner is asked again after two failed executions in a row
C28_Witness ==
    /\ pc = "suggest" /\ status = None
    /\ Len(goal_history) >= 2
    /\ goal_history[Len(goal_history)].returncode # 0
    /\ goal_history[Len(goal_history) - 1].returncode # 0

\* the executions made so far in the process whose executed command
\* normalizes to key
KeyExecutions(key) ==
    LET RECURSIVE Sum(_)
        Sum(T) == IF T = {} THEN 0
                  ELSE LET t == CHOOSE x \in T : TRUE
                       IN  run_count[t] + Sum(T \ {t})
    IN  Sum({t \in DOMAIN run_count : Normalize(t) = key})

\* a step that starts a goal
GoalStarts == pc = "idle" /\ pc' # "idle"

\* C29: the scoreboard is never reset during the process: at every point,
\* for every normalized key, successes + failures is the number of executions
\* made so far in the whole process, over all goals, whose executed command
\* normalizes to the key; the start of a goal empties the goal history and
\* drops the active plan and leaves every count of the scoreboard unchanged.
C29_ScoreboardSpansProcess ==
    /\ [](\A key \in DOMAIN scores \cup {Normalize(t) : t \in DOMAIN run_count} :
             /\ key \in DOMAIN scores
             /\ CommandStats_total(scores[key]) = KeyExecutions(key))
    /\ [][GoalStarts =>
             /\ goal_history' = <<>> /\ active_plan' = None
             /\ scores' = scores /\ run_count' = run_count]_vars

\* a goal starts with an empty history and no plan while the scoreboard
\* holds the two executions of an earlier goal under one key
C29_Witness ==
    /\ pc = "suggest" /\ goal_history = <<>> /\ active_plan = None
    /\ \E key \in DOMAIN scores :
          /\ CommandStats_total(scores[key]) = 2
          /\ KeyExecutions(key) = 2

(***************************************************************************)
(* Properties of one planner turn (SpecTurn).                              *)
(***************************************************************************)
\* the answer of the backend is a command that is a repeated failure
RepeatsFailure(answer) ==
    /\ ~answer.raised /\ answer.reply[1].mode = "command"
    /\ is_repeated_failure(answer.reply[1].command, tn_history)

\* the conversation of the turn before any corrective message
BaseConversation == build_messages(tn_history)

\* C22: within one planner turn the guard runs at most one retry: the backend
\* is asked at most twice, the first time with the base conversation; it is
\* asked a second time only when its first suggestion was a repeated
\* failure, with the base conversation and exactly one corrective message
\* after it; when the second suggestion is a repeated failure again the turn
\* raises a PlannerError; and the status main() gives the goal after a raised
\* turn is planner_error.
C22_OneGuardCycle ==
    /\ Len(tn_log) <= 2
    /\ Len(tn_log) >= 1 => tn_log[1].messages = BaseConversation
    /\ Len(tn_log) = 2 =>
          /\ RepeatsFailure(tn_log[1].answer)
          /\ Len(tn_log[2].messages) = Len(BaseConversation) + 1
          /\ SubSeq(tn_log[2].messages, 1, Len(BaseConversation)) = BaseConversation
          /\ tn_log[2].messages[Len(tn_log[2].messages)] = build_repeat_feedback(tn_history)
          /\ tn_outcome # None
          /\ RepeatsFailure(tn_log[2].answer) => tn_outcome = Some(Raised)
    /\ (Len(tn_log) = 1 /\ ~RepeatsFailure(tn_log[1].answer)) => tn_outcome # None
    /\ tn_status # None => (tn_outcome = Some(Raised) /\ tn_status = Some("planner_error"))

\* the backend gave the twice-failed command at both requests and the goal
\* ended with planner_error
C22_Witness ==
    /\ Len(tn_log) = 2
    /\ RepeatsFailure(tn_log[1].answer) /\ RepeatsFailure(tn_log[2].answer)
    /\ tn_outcome = Some(Raised) /\ tn_status = Some("planner_error")

(***************************************************************************)
(* Properties of determine_status (SpecStatus).                            *)
(***************************************************************************)
\* the exit code of the most recent execution, 0 when there is none (as
\* main() takes it at line 797)
LastCode(history) == IF history # <<>> THEN history[Len(history)].returncode ELSE 0

\* the first status that applies, in the order of the claim
FirstApplicable(a) ==
    IF a.planner_error # None THEN "planner_error"
    ELSE IF a.cancelled /\ a.history = <<>> THEN "cancelled"
    ELSE IF (a.completed /\ LastCode(a.history) = 0) \/ a.chat THEN "completed"
    ELSE IF a.history # <<>> /\ LastCode(a.history) # 0 THEN "failed"
    ELSE IF a.cancelled THEN "cancelled"
    ELSE IF a.history # <<>> THEN "incomplete"
    ELSE "no_action"

\* C25: for every goal history (empty, last exit code 0, last exit code
\* non-zero), planner_completed, planner_error and user_cancelled,
\* determine_status returns the first status that applies in the order
\* planner_error, cancelled (history empty), completed (completion signalled
\* and last exit code 0, or a chat reply), failed, cancelled, incomplete,
\* no_action.
C25_FirstApplicable ==
    ds_result # None => ds_result = Some(FirstApplicable(ds_args))

(***************************************************************************)
(* Properties of SafetyPolicy.load (SpecLoad).                             *)
(***************************************************************************)
\* the rules a candidate file gives, <<>> when it is missing, cannot be read
\* or parsed, or holds no valid rule
RulesOf(file) ==
    IF ~file.exists \/ file.read # "ok" \/ file.loaded = None THEN <<>>
    ELSE IF ~file.loaded[1].is_dict \/ file.loaded[1].rules = None THEN <<>>
    ELSE LET items == file.loaded[1].rules[1]
             Valid(i) ==
                 /\ items[i].is_dict
                 /\ items[i].pattern # None /\ re_compile(items[i].pattern[1]) # None
                 /\ \/ items[i].level.kind = "none"
                    \/ /\ items[i].level.kind = "str"
                       /\ Str(Lower(items[i].level.text)) \in {"low", "medium", "high"}
         IN  IF \E i \in 1..Len(items) : Valid(i) THEN <<"rules">> ELSE <<>>

\* the first candidate that gives rules, 0 when none does
FirstUsable ==
    IF \E i \in 1..Len(ld_candidates) : RulesOf(ld_candidates[i]) # <<>>
    THEN CHOOSE i \in 1..Len(ld_candidates) :
            /\ RulesOf(ld_candidates[i]) # <<>>
            /\ \A j \in 1..(i - 1) : RulesOf(ld_candidates[j]) = <<>>
    ELSE 0

\* C30: a policy file that exists but cannot be parsed, or whose rule list is
\* empty or invalid, never causes a hard failure: loading falls through to
\* the next candidate and finally to the built-in policy, and the process
\* goes on with a usable policy: the rules of the first candidate that gives
\* any, the built-in rules when no candidate does.
C30_NeverHardFailure ==
    /\ ld_main.state # "crashed"
    /\ ld_main.state = "running" =>
          /\ ld_main.policy # None /\ ld_main.policy[1] # <<>>
          /\ FirstUsable = 0 => ld_main.policy[1] = SafetyPolicy_default
          /\ FirstUsable # 0 =>
                ld_main.policy[1] =
                    rules_from_mapping(ld_candidates[FirstUsable].loaded[1]).rules

(***************************************************************************)
(* Properties of the built-in policy (SpecDefault): the order of levels.   *)
(***************************************************************************)
\* C38: under the built-in policy every command that matches at least one
\* high rule is decided high with require_confirmation, also when it matches
\* a medium rule (a sudo prefix, say), because every high rule is declared
\* before every medium rule.
C38_HighBeforeMedium ==
    /\ \A i \in 1..Len(sp_rules) : \A j \in 1..Len(sp_rules) :
          (sp_rules[i].level = "high" /\ sp_rules[j].level = "medium") => i < j
    /\ (Decided /\ \E i \in RawHittingRules : sp_rules[i].level = "high")
          => sp_decision[1].level = "high" /\ sp_decision[1].require_confirmation

\* a command behind a sudo prefix matches the sudo rule and a high rule
C38_Witness ==
    /\ Decided
    /\ \E i \in RawHittingRules : sp_rules[i].level = "high"
    /\ \E j \in RawHittingRules : sp_rules[j].level = "medium" /\ sp_rules[j].pattern = Patterns.sudo
    /\ sp_decision[1].level = "high" /\ sp_decision[1].require_confirmation

\* a step that executes a command to its end
Executes == pc = "executing" /\ pc' # "executing"

\* C36: the goal history is append-only: each execution appends exactly one
\* CommandResult at the end, a cancelled or rejected suggestion appends
\* nothing, and no field of an earlier entry is changed by a later
\* iteration, a plan replacement or the construction of the planner history;
\* the history is emptied only when the next goal starts.
C36_AppendOnly ==
    [][/\ Executes =>
            /\ Len(goal_history') = Len(goal_history) + 1
            /\ SubSeq(goal_history', 1, Len(goal_history)) = goal_history
       /\ (~Executes /\ ~GoalStarts) => goal_history' = goal_history
       /\ GoalStarts => goal_history' = <<>>]_vars

\* the plan was replaced after two executions of the goal, the first of
\* them made for a step of the plan before it
C36_Witness ==
    /\ pc = "suggest" /\ Len(goal_history) = 2
    /\ goal_history[1].plan_step_id # None
    /\ goal_history[1].normalized_command = goal_history[2].normalized_command
    /\ planner_reply # None /\ planner_reply[1].mode = "plan"

\* the decision of the policy on a text is high or forces confirmation
Gated(text) ==
    assess_command_risk(text).level = "high" \/ assess_command_risk(text).require_confirmation

\* the decision at the gate and the risk level of every result are those of
\* the text that is executed
DecisionOfExecutedText ==
    /\ pc \in {"action_prompt", "confirm_prompt", "executing"}
          => decision = Some(assess_command_risk(edited))
    /\ \A k \in 1..Len(goal_history) :
          /\ goal_history[k].risk_level =
                assess_command_risk(goal_history[k].executed_command).level
          /\ goal_history[k].safety_notes =
                assess_command_risk(goal_history[k].executed_command).notes

\* C37 as stated: the decision applied at the gate and stored as the result's
\* risk level is the one of the text that is executed, and an edit that
\* raises the risk to high or forces confirmation is gated.
C37_AsStated ==
    /\ DecisionOfExecutedText
    /\ (pc = "executing" /\ edited # command_suggestion /\ Gated(edited)) => AnsweredProceed

\* C37 (amended): the decision applied at the gate and stored as the result's
\* risk level is the one of the text that is executed, never the one of the
\* planner's suggestion when the two differ; unless safety checks are
\* disabled for the run, an edit that raises the risk to high or forces
\* confirmation is gated.
C37_RiskOfExecutedText ==
    /\ DecisionOfExecutedText
    /\ (pc = "executing" /\ edited # command_suggestion /\ Gated(edited) /\ ~safety_disabled)
          => AnsweredProceed
    /\ (pc = "confirm_prompt") => (Gated(edited) /\ ~safety_disabled)

\* the operator replaced a low-risk suggestion by a high-risk text, which is
\* executing after the confirmation
C37_Witness ==
    /\ pc = "executing" /\ ~safety_disabled
    /\ ~Gated(command_suggestion) /\ Gated(edited)
    /\ decision[1].level = "high" /\ AnsweredProceed

\* every history index stored in the active plan is a position of the goal
\* history (counted from 0), one step's indices increase strictly, and the
\* result at each of them carries the id of the step
HistoryIndicesSound ==
    active_plan # None =>
        \A i \in 1..Len(active_plan[1].steps) :
            LET step == active_plan[1].steps[i]
                h == step.history_indices
            IN  /\ \A k \in 1..Len(h) :
                      /\ h[k] \in 0..(Len(goal_history) - 1)
                      /\ goal_history[h[k] + 1].plan_step_id = Some(step.id)
                /\ \A k \in 1..(Len(h) - 1) : h[k] < h[k + 1]

\* there is no plan, or every step of the plan is completed
NoStepLeft == active_plan = None \/ PlanState_current_step(active_plan[1]) = None

\* C40: for the active plan, every stored history index is a valid position
\* in the current goal history, one step's indices are strictly increasing,
\* and the result at each such position carries that step's id as
\* plan_step_id; an execution made with no plan, or with every step
\* completed, leaves the plan unchanged and produces a result with no
\* plan_step_id.
C40_HistoryIndices ==
    /\ []HistoryIndicesSound
    /\ [][(Executes /\ NoStepLeft) =>
            /\ active_plan' = active_plan
            /\ goal_history'[Len(goal_history')].plan_step_id = None]_vars

\* two executions were recorded for one step of the active plan
C40_Witness ==
    /\ pc = "suggest" /\ active_plan # None /\ Len(goal_history) = 2
    /\ \E i \in 1..Len(active_plan[1].steps) :
          /\ active_plan[1].steps[i].history_indices = <<0, 1>>
          /\ goal_history[1].plan_step_id = Some(active_plan[1].steps[i].id)
          /\ goal_history[2].plan_step_id = Some(active_plan[1].steps[i].id)

\* the execution that ends in this step recorded exactly one outcome under
\* the normalized executed command, and its result is the last element of
\* the goal history, with the totals of that key as its score
ExecutionRecorded ==
    LET result == goal_history'[Len(goal_history')]
        key == Normalize(edited)
        before == IF key \in DOMAIN scores THEN scores[key] ELSE CommandStats(0, 0)
        success == result.returncode = 0
    IN  /\ goal_history' = Append(goal_history, result)
        /\ result.executed_command = edited
        /\ DOMAIN scores' = DOMAIN scores \cup {key}
        /\ \A k \in DOMAIN scores \ {key} : scores'[k] = scores[k]
        /\ scores'[key] = CommandStats(before.successes + (IF success THEN 1 ELSE 0),
                                       before.failures + (IF success THEN 0 ELSE 1))
        /\ result.score = Some(CommandStats_to_dict(scores'[key]))

\* the step that was current for the execution is completed when the exit
\* code was 0 and failed otherwise, and the result carries that status
StepSettled ==
    LET result == goal_history'[Len(goal_history')]
        settled == IF result.returncode = 0 THEN "completed" ELSE "failed"
    IN  active_step # None =>
            /\ active_plan'[1].steps[active_step[1]].status = settled
            /\ result.plan_step_status = Some(settled)

\* C34: after every execution and before the next planner request, exactly
\* one outcome was recorded under the normalized executed command (success
\* iff the exit code was 0), the new result is the last element of the goal
\* history with a score snapshot equal to the scoreboard totals of that key,
\* and, if a plan step was current, that step's status is completed iff the
\* exit code was 0 (failed otherwise) and the result's plan_step_status
\* equals that status.
C34_AfterExecution == [][Executes => (ExecutionRecorded /\ StepSettled)]_vars

\* the status changes the state machine of a plan step allows
StepTransitions ==
    { <<"pending", "in_progress">>, <<"failed", "in_progress">>,
      <<"in_progress", "completed">>, <<"in_progress", "failed">> }

\* the step keeps the plan it had: no plan-mode reply and no new goal
KeepsPlan == active_plan # None /\ active_plan' # None /\ ~(pc = "suggest" /\ pc' = "suggest")

\* C35: every change of a plan step's status follows the state machine
\* pending -> in_progress, failed -> in_progress, in_progress -> completed,
\* in_progress -> failed; no step goes from pending directly to completed or
\* failed, and a step is in_progress only while its command is executing.
C35_StepStateMachine ==
    /\ [](active_plan # None =>
            \A i \in 1..Len(active_plan[1].steps) :
                active_plan[1].steps[i].status = "in_progress" => pc = "executing")
    /\ [][KeepsPlan =>
            \A i \in 1..Len(active_plan[1].steps) :
                \/ active_plan'[1].steps[i].status = active_plan[1].steps[i].status
                \/ <<active_plan[1].steps[i].status, active_plan'[1].steps[i].status>>
                        \in StepTransitions]_vars

\* the exit causes of the inner loop that are set
ExitCauses ==
    (IF planner_error_msg # None THEN {"planner_error"} ELSE {})
        \cup (IF user_cancelled THEN {"user_cancelled"} ELSE {})
        \cup (IF planner_completed THEN {"planner_completed"} ELSE {})

\* C39: whenever the inner loop of a goal exits, at least one of
\* planner_error, user_cancelled and planner_completed is set (exactly one
\* exit cause fired), so the statuses incomplete and no_action are never
\* produced by the main loop.
C39_ExitCause ==
    [][GoalEnds =>
            /\ Cardinality(ExitCauses') = 1
            /\ status' \notin {Some("incomplete"), Some("no_action")}]_vars

\* the planner sent DONE after a command that succeeded: the goal ended with
\* the one cause planner_completed
C39_Witness ==
    /\ pc = "idle" /\ ExitCauses = {"planner_completed"}
    /\ goal_history # <<>> /\ status = Some("completed")

\* C33: the inner loop of a goal is bounded: for every behaviour of the
\* planner and the operator, each goal reaches a terminal status after
\* finitely many suggestion/execution cycles (assuming each planner call and
\* each subprocess returns).
C33_GoalTerminates == (pc # "idle") ~> (pc = "idle")

\* the lines of a byte sequence, each with its line end, the last one
\* possibly without
RECURSIVE LinesOf(_, _)
LinesOf(bytes, line) ==
    IF bytes = <<>> THEN (IF line = <<>> THEN <<>> ELSE <<line>>)
    ELSE IF bytes[1] = "\n" THEN <<Append(line, "\n")>> \o LinesOf(Tail(bytes), <<>>)
    ELSE LinesOf(Tail(bytes), Append(line, bytes[1]))

\* C31: stream_process_output returns only after the subprocess has exited
\* and both reader threads have terminated; the stdout buffer it returns
\* holds every line the subprocess emitted on stdout, in emission order, and
\* the stderr buffer every line emitted on stderr: no line is lost,
\* duplicated or put in the other buffer.
C31_BuffersComplete ==
    st_result # None =>
        /\ st_proc.state = "exited"
        /\ \A s \in {"out", "err"} : st_thread[s].state \in {"done", "raised"}
        /\ st_result[1].stdout = LinesOf(st_proc.emitted["out"], <<>>)
        /\ st_result[1].stderr = LinesOf(st_proc.emitted["err"], <<>>)

\* the subprocess has not exited, or one of its reader threads still runs
InFlight == st_proc.state = "running" \/ \E s \in {"out", "err"} : st_thread[s].state = "running"

\* C32: at most one command is in flight: the main loop neither starts a
\* subprocess nor goes on to request a suggestion or to update the
\* scoreboard and the plan while the previous subprocess or its reader
\* threads still run, and a reader thread writes only to its own buffer.
C32_OneInFlight ==
    /\ [](InFlight => st_main \in {"start", "wait", "join_out", "join_err"})
    /\ [][/\ (st_runs' # st_runs \/ (st_main = "idle" /\ st_main' # "idle")) => ~InFlight
          /\ \A s \in {"out", "err"} :
                (st_thread[s].state = "running" /\ st_thread'[s].buffer # st_thread[s].buffer)
                    => /\ \A t \in {"out", "err"} \ {s} : st_thread'[t] = st_thread[t]
                       /\ UNCHANGED <<st_main, st_result, st_runs, st_proc>>]_vars

\* the second command of the run: its subprocess has exited, the main thread
\* waits in the first join while the stdout reader, one line in its buffer,
\* still has text to handle
C32_Witness ==
    /\ st_runs = 1 /\ st_main = "join_out" /\ st_proc.state = "exited"
    /\ st_thread["out"].state = "running"
    /\ Len(st_thread["out"].buffer) = 1 /\ st_thread["out"].pending # <<>>

====
